---- MODULE Spec2Model ----
(***************************************************************************)
(* Cut-and-Shoot: the Cutter/Scheduler MILP (src/src/model.py) and the     *)
(* pipeline steps of main() that consume its result (src/src/main.py).     *)
(*                                                                         *)
(* The MILP solver is an external black box.  It is modelled by what it    *)
(* guarantees: it reports "Infeasible" exactly when no assignment of the   *)
(* decision variables satisfies every constraint added by add_constraints, *)
(* and otherwise leaves a feasible assignment in the variables; the status *)
(* is "Optimal" exactly when that assignment minimises the objective built *)
(* by build_objective_function.                                            *)
(*                                                                         *)
(* The later stages are modelled each on its own inputs, drawn in the      *)
(* shape the stage before it produces: the Constructor                     *)
(* (src/src/constructor.py), the Dispatcher (src/src/runner.py), the Merge *)
(* stage (src/src/merge.py), the Formatter (src/src/formatter.py) and the  *)
(* reconstruction (src/src/post_processing.py).  Strings that the code     *)
(* builds or inspects character by character (variant names) are          *)
(* sequences of one-character strings.                                     *)
(***************************************************************************)
EXTENDS Integers, Sequences, FiniteSets, TLC

(* ------------------------------ bounds ------------------------------- *)
MaxV == 3          \* vertices of the input graph
MaxWeight == 2     \* weight (number of qargs) of a vertex
MaxN == 3          \* num_subcircuits
MaxQ == 2          \* number of QPUs
MaxCap == 3        \* capacity of a QPU
MaxExec == 1       \* execution_time of a QPU
MaxQueue == 1      \* queue_time of a QPU
MaxShots == 2      \* num_shots_per_subcircuit
TSlack == 0        \* how far the free variable Makespan may exceed max T_q
FleetMaxV == 2     \* vertices of the graphs given to a fleet of QPUs
FleetMaxN == 2     \* num_subcircuits with a fleet of QPUs
FleetMaxCap == 2   \* capacity of a QPU of the fleet
ScenarioShots == 1024
MaxOps == 3        \* gates of the circuit given to the Constructor
NumWires == 2      \* qubits of that circuit
MaxParts == 2      \* subcircuits the circuit is split into
MaxWorkers == 2    \* max_workers of the Constructor's thread pool
MaxResults == 3    \* QPU results handed to the Merge stage
MaxCount == 1      \* count of one bitstring in one QPU's result
ProbUnit == 2      \* a probability handed to the reconstruction is k / ProbUnit
MaxCoeff == 2      \* base_coeff, as a whole number
MaxCircuits == 3   \* length of the circuit_list given to run_circuit_list
RunMaxShots == 2   \* shots of one entry of the circuit_list
MaxCombo == 2      \* length of the combos in the names given to compute_variant_contrib

VARIABLES
    vertex_weights,             \* dict {vertex: weight}, vertices are 0..V-1
    edges,                      \* set of (u, v)
    qpus,                       \* list of QPU objects, indexed from 0
    num_shots_per_subcircuit,
    num_subcircuits,
    alpha, beta,                \* objective weights, in tenths
    pc,                         \* position in main()
    status,                     \* pulp.LpStatus[problem.status]
    sol,                        \* values of the decision variables
    ret,                        \* value returned by print_and_return_solution
    unpacked,                   \* main's locals after `subcircuits, num_cuts = ...`
    \* --- create_quantum_subcircuits ---
    qc,                         \* the circuit: its op nodes, vertex v is qc[v + 1]
    subcircuits,                \* the scheduler's output {sub_id: {vertices, cuts}}
    max_workers,
    ctor_pc,                    \* position in create_quantum_subcircuits
    task,                       \* sub_id -> state of its future
    in_pos,                     \* sub_id -> input combos its task has finished
    local_subcircuits,          \* sub_id -> the local dict of its task
    result,                     \* the dict filled by the collecting loop
    \* --- merge_and_normalize_variant_counts ---
    qpu_results_list,           \* list of {variant_name: data}
    merge_pc,                   \* position in merge_and_normalize_variant_counts
    merge_pos,                  \* QPU results accumulated so far
    merged_counts,              \* variant_name -> Counter
    total_shots_per_variant,
    metadata_per_variant,
    final_results,
    \* --- fd_reconstruct_variant_dict / dd_reconstruct_variant_dict ---
    all_results,                \* variant_name -> {active_qubits, probabilities}
    base_coeff,
    method,                     \* "fd" or "dd": the function that is called
    rec_pc,                     \* position in that function
    contribs,                   \* sub_idx -> variant_name -> (vec, eff_coeff, n_qubits)
    global_vector,              \* the accumulated vector, in units of 1 / ProbUnit^subcircuits
    rec_ret,                    \* the returned vector
    \* --- run_circuit_list ---
    circuit_list,               \* (name, qc, shots, active_qubits, init_qbits, meas_qbits)
    failing,                    \* the variants on which the backend fails
    run_pc,
    grouped,                    \* the shot groups, in insertion order
    run_pos,                    \* the group the loop is at
    results,
    run_ret,                    \* what the caller receives
    \* --- format_data ---
    quantum_subcircuits,        \* sub_id -> variant_name -> variant
    variants_results,
    fmt_pc,
    subcircuits_data,           \* the returned list
    \* --- QPU (qpu.py) ---
    qpu_type,                   \* the name given to QPU(qpu_type, index)
    qpu,                        \* the attributes of the QPU object
    qpu_pc,
    \* --- main: the assignment of the variants to the QPUs and their execution ---
    shots_plan,
    variant_kind,
    variant_shots,
    qpu_assignments,
    assign_todo,
    run_todo,
    executed,
    disp_pc

milp == <<vertex_weights, edges, qpus, num_shots_per_subcircuit, num_subcircuits,
          alpha, beta, pc, status, sol, ret, unpacked>>

ctor == <<qc, subcircuits, max_workers, ctor_pc, task, in_pos, local_subcircuits, result>>

merge == <<qpu_results_list, merge_pc, merge_pos, merged_counts,
           total_shots_per_variant, metadata_per_variant, final_results>>

rec == <<all_results, base_coeff, method, rec_pc, contribs, global_vector, rec_ret>>

run == <<circuit_list, failing, run_pc, grouped, run_pos, results, run_ret>>

fmt == <<quantum_subcircuits, variants_results, fmt_pc, subcircuits_data>>

qpu_st == <<qpu_type, qpu, qpu_pc>>

disp == <<shots_plan, variant_kind, variant_shots, qpu_assignments, assign_todo, run_todo, executed, disp_pc>>

\* the stages after the scheduler
stages == <<ctor, merge, rec, run, fmt, qpu_st, disp>>

vars == <<milp, stages>>

\* a stage that is not running
CtorIdle ==
    /\ qc = <<>> /\ subcircuits = <<>> /\ max_workers = 0 /\ ctor_pc = "idle"
    /\ task = <<>> /\ in_pos = <<>> /\ local_subcircuits = <<>> /\ result = <<>>

MergeIdle ==
    /\ qpu_results_list = <<>> /\ merge_pc = "idle" /\ merge_pos = 0
    /\ merged_counts = <<>> /\ total_shots_per_variant = <<>>
    /\ metadata_per_variant = <<>> /\ final_results = <<>>

RecIdle ==
    /\ all_results = <<>> /\ base_coeff = 0 /\ method = "none" /\ rec_pc = "idle"
    /\ contribs = <<>> /\ global_vector = <<>> /\ rec_ret = <<>>

RunIdle ==
    /\ circuit_list = <<>> /\ failing = {} /\ run_pc = "idle" /\ grouped = <<>>
    /\ run_pos = 0 /\ results = <<>> /\ run_ret = <<>>

FmtIdle ==
    /\ quantum_subcircuits = <<>> /\ variants_results = <<>> /\ fmt_pc = "idle"
    /\ subcircuits_data = <<>>

QpuIdle ==
    /\ qpu_type = "none" /\ qpu = <<>> /\ qpu_pc = "idle"

DispIdle ==
    /\ shots_plan = <<>> /\ variant_kind = "none" /\ variant_shots = <<>>
    /\ qpu_assignments = <<>> /\ assign_todo = <<>> /\ run_todo = <<>>
    /\ executed = <<>> /\ disp_pc = "idle"

StagesIdle == CtorIdle /\ MergeIdle /\ RecIdle /\ RunIdle /\ FmtIdle /\ QpuIdle /\ DispIdle

\* what the actions of one stage leave alone
not_ctor == <<milp, merge, rec, run, fmt, qpu_st, disp>>
not_merge == <<milp, ctor, rec, run, fmt, qpu_st, disp>>
not_rec == <<milp, ctor, merge, run, fmt, qpu_st, disp>>
not_run == <<milp, ctor, merge, rec, fmt, qpu_st, disp>>
not_fmt == <<milp, ctor, merge, rec, run, qpu_st, disp>>
not_qpu_st == <<milp, ctor, merge, rec, run, fmt, disp>>
not_disp == <<milp, ctor, merge, rec, run, fmt, qpu_st>>

inputs == <<vertex_weights, edges, qpus, num_shots_per_subcircuit, num_subcircuits,
            alpha, beta>>

(* ------------------------------ helpers ------------------------------ *)
RECURSIVE SumOver(_, _)
SumOver(D, f) ==
    IF D = {} THEN 0
    ELSE LET d == CHOOSE e \in D : TRUE IN f[d] + SumOver(D \ {d}, f)

Sum(f) == SumOver(DOMAIN f, f)

Max2(i, j) == IF i >= j THEN i ELSE j

RECURSIVE MaxOver(_, _)
MaxOver(D, f) ==
    IF D = {} THEN 0
    ELSE LET d == CHOOSE e \in D : TRUE IN Max2(f[d], MaxOver(D \ {d}, f))

\* all functions g on D with g[d] \in A[d]
RECURSIVE FunsWith(_, _)
FunsWith(D, A) ==
    IF D = {} THEN {<<>>}
    ELSE LET d == CHOOSE e \in D : TRUE
         IN  {g @@ (d :> v) : g \in FunsWith(D \ {d}, A), v \in A[d]}

(* ------------------------- CutAndShootModel -------------------------- *)
vertices == DOMAIN vertex_weights
num_qpus == Cardinality(DOMAIN qpus)
qpus_index == DOMAIN qpus
subcircuit_ids == 0 .. (num_subcircuits - 1)

\* __init__: the checks on alpha and beta
BadAlphaBeta ==
    alpha < 0 \/ beta < 0 \/ alpha + beta # 10

\* y[(k, j)] is looked up for k in range(num_subcircuits): a key outside the
\* dictionary of y raises KeyError while the ordering constraint is built
OrderingKeyError ==
    \E k \in subcircuit_ids : \E j \in (k + 1) .. (num_subcircuits - 1) :
        k \notin vertices

(* --- constraints of add_constraints, each on candidate values --- *)
\* x_1 .. x_4
EdgeConstraints_NoUpper(y, e, c, xv) ==
    /\ xv >= y[e[1]][c] - y[e[2]][c]
    /\ xv >= y[e[2]][c] - y[e[1]][c]
EdgeConstraints(y, e, c, xv) ==
    /\ xv <= y[e[1]][c] + y[e[2]][c]
    /\ xv >= y[e[1]][c] - y[e[2]][c]
    /\ xv >= y[e[2]][c] - y[e[1]][c]
    /\ xv <= 2 - y[e[1]][c] - y[e[2]][c]

\* zp_1 .. zp_3 (yv = y[e[1], c]) and zo_1 .. zo_3 (yv = y[e[0], c])
Linearization_NoLower(zv, xv, yv) == zv <= xv /\ zv <= yv
Linearization(zv, xv, yv) ==
    /\ zv <= xv
    /\ zv <= yv
    /\ zv >= xv + yv - 1

\* Unique_vertex_v
Unique_vertex_AtMostOne(row) == Sum(row) <= 1
Unique_vertex(row) == Sum(row) = 1

\* Ordering_subc_k, for the row of vertex v
Ordering_subc_Free(v, row) == TRUE
Ordering_subc(v, row) ==
    v \in subcircuit_ids =>
        SumOver((v + 1) .. (num_subcircuits - 1), row) = 0

\* Active_subcircuit_c, with the first BigM_d
BigM_active == Sum(vertex_weights)
Active_subcircuit(dc, uc) == dc <= BigM_active * uc

\* Total_shots_subc_c
Total_shots_subc(shots_c, uc) ==
    Sum(shots_c) = num_shots_per_subcircuit * uc

\* UseQ_q_1
M_shots == num_subcircuits * num_shots_per_subcircuit
UseQ(shots, q, use) ==
    SumOver(subcircuit_ids, [c \in subcircuit_ids |-> shots[c][q]]) <= M_shots * use

\* cap_c_q, with the second BigM_d
BigM_cap == Cardinality(vertices) + Cardinality(edges)
cap_NoBound(dc, q, ab) == TRUE
cap(dc, q, ab) == dc <= qpus[q].capacity + BigM_cap * (1 - ab)

\* enable_shots_c_q
enable_shots_Free(sh, ab) == sh <= num_shots_per_subcircuit
enable_shots(sh, ab) == sh <= num_shots_per_subcircuit * ab

ShotsOn(shots, q) == SumOver(subcircuit_ids, [c \in subcircuit_ids |-> shots[c][q]])

\* QueueTimeMin_q, ExecutionTimeMin_q, MaxTime_q
TimeConstraints_Sum(tq, q, use, nshots) ==
    tq = qpus[q].queue_time * use + nshots * qpus[q].execution_time
TimeConstraints(tq, q, use, nshots) ==
    /\ tq >= qpus[q].queue_time * use
    /\ tq >= nshots * qpus[q].execution_time
    /\ tq <= qpus[q].queue_time * use + nshots * qpus[q].execution_time

(* --- the accumulators fixed by the equalities A_c, P_c, O_c, F_c, D_c --- *)
A_c(y, c) == SumOver(vertices, [v \in vertices |-> vertex_weights[v] * y[v][c]])
P_c(z_p, c) == SumOver(edges, [e \in edges |-> z_p[e][c]])
O_c(z_o, c) == SumOver(edges, [e \in edges |-> z_o[e][c]])

(* --- build_objective_function --- *)
\* 2 * K: the sum of x[e, c] over all subcircuits and edges
TwiceK(x) ==
    SumOver(edges, [e \in edges |-> SumOver(subcircuit_ids, x[e])])

T_max ==
    MaxOver(qpus_index,
            [q \in qpus_index |->
                qpus[q].queue_time
                + num_subcircuits * num_shots_per_subcircuit * qpus[q].execution_time])

\* alpha * K_norm + beta * T_norm, multiplied by the positive constant
\* 10 * KD * TD, where K_norm = 2K / |E| (KD = |E|, or 1 with K_norm = 0 when
\* there are no edges) and T_norm = T / T_max (TD = T_max, or 1 with T_norm = 0)
ObjectiveWith_WeightsSwapped(al, be, s) ==
    LET nE == Cardinality(edges)
        KD == IF nE > 0 THEN nE ELSE 1
        Kn == IF nE > 0 THEN TwiceK(s.x) ELSE 0
        TD == IF T_max > 0 THEN T_max ELSE 1
        Tn == IF T_max > 0 THEN s.T ELSE 0
    IN  be * Kn * TD + al * Tn * KD
ObjectiveWith_CutsOnly(al, be, s) ==
    LET nE == Cardinality(edges)
    IN  IF nE > 0 THEN al * TwiceK(s.x) ELSE 0
ObjectiveWith(al, be, s) ==
    LET nE == Cardinality(edges)
        KD == IF nE > 0 THEN nE ELSE 1
        Kn == IF nE > 0 THEN TwiceK(s.x) ELSE 0
        TD == IF T_max > 0 THEN T_max ELSE 1
        Tn == IF T_max > 0 THEN s.T ELSE 0
    IN  al * Kn * TD + be * Tn * KD

Objective(s) == ObjectiveWith(alpha, beta, s)

(* --- the feasible region --- *)
\* rows y[v, .] allowed by Unique_vertex and Ordering_subc
Ys ==
    FunsWith(vertices,
             [v \in vertices |->
                 {row \in [subcircuit_ids -> 0 .. 1] :
                     Unique_vertex(row) /\ Ordering_subc(v, row)}])

Xs(y) ==
    FunsWith(edges,
             [e \in edges |->
                 FunsWith(subcircuit_ids,
                          [c \in subcircuit_ids |->
                              {xv \in 0 .. 1 : EdgeConstraints(y, e, c, xv)}])])

\* z_p (end = 2, the target e[1]) and z_o (end = 1, the source e[0])
Zs(y, x, end) ==
    FunsWith(edges,
             [e \in edges |->
                 FunsWith(subcircuit_ids,
                          [c \in subcircuit_ids |->
                              {zv \in 0 .. 1 : Linearization(zv, x[e][c], y[e[end]][c])}])])

\* per subcircuit: u[c], abilita[c, .] and shots_assign[c, .]
PerSubcircuit(dc) ==
    {r \in [u : 0 .. 1,
            abilita : [qpus_index -> 0 .. 1],
            shots_assign : [qpus_index -> 0 .. num_shots_per_subcircuit]] :
        /\ Active_subcircuit(dc, r.u)
        /\ Total_shots_subc(r.shots_assign, r.u)
        /\ \A q \in qpus_index :
              /\ cap(dc, q, r.abilita[q])
              /\ enable_shots(r.shots_assign[q], r.abilita[q])}

\* per QPU: use_q[q] and T_q[q]
PerQpu(shots, q) ==
    LET n == ShotsOn(shots, q)
        hi == qpus[q].queue_time + n * qpus[q].execution_time
    IN  {r \in [use_q : 0 .. 1, T_q : 0 .. hi] :
            /\ UseQ(shots, q, r.use_q)
            /\ TimeConstraints(r.T_q, q, r.use_q, n)}

Solution(y, x, z_p, z_o, per_c, per_q, T) ==
    LET a == [c \in subcircuit_ids |-> A_c(y, c)]
        p == [c \in subcircuit_ids |-> P_c(z_p, c)]
        o == [c \in subcircuit_ids |-> O_c(z_o, c)]
    IN  [y |-> y, x |-> x, z_p |-> z_p, z_o |-> z_o,
         a |-> a, p |-> p, o |-> o,
         f |-> [c \in subcircuit_ids |-> a[c] + p[c] - o[c]],
         d |-> [c \in subcircuit_ids |-> a[c] + p[c]],
         u |-> [c \in subcircuit_ids |-> per_c[c].u],
         abilita |-> [c \in subcircuit_ids |-> per_c[c].abilita],
         shots_assign |-> [c \in subcircuit_ids |-> per_c[c].shots_assign],
         use_q |-> [q \in qpus_index |-> per_q[q].use_q],
         T_q |-> [q \in qpus_index |-> per_q[q].T_q],
         T |-> T]

SchedulesFor(y, x, z_p, z_o) ==
    LET d == [c \in subcircuit_ids |-> A_c(y, c) + P_c(z_p, c)]
        PerC == FunsWith(subcircuit_ids, [c \in subcircuit_ids |-> PerSubcircuit(d[c])])
    IN  UNION {
          LET shots == [c \in subcircuit_ids |-> per_c[c].shots_assign]
              PerQ == FunsWith(qpus_index, [q \in qpus_index |-> PerQpu(shots, q)])
          IN  UNION {
                LET lo == MaxOver(qpus_index, [q \in qpus_index |-> per_q[q].T_q])
                IN  {Solution(y, x, z_p, z_o, per_c, per_q, T) : T \in lo .. (lo + TSlack)}
                : per_q \in PerQ }
          : per_c \in PerC }

FeasibleSolutions ==
    UNION { UNION { UNION { UNION {
        SchedulesFor(y, x, z_p, z_o)
        : z_o \in Zs(y, x, 1) } : z_p \in Zs(y, x, 2) } : x \in Xs(y) } : y \in Ys }

\* the optimal value of the objective with weights (al, be) over a non-empty
\* feasible region F, and the solutions of F that attain it
MinObjectiveWith(al, be, F) ==
    LET vals == {ObjectiveWith(al, be, s) : s \in F}
    IN  CHOOSE m \in vals : \A k \in vals : m <= k

OptimalWith(al, be, F) ==
    UNION {{s \in F : ObjectiveWith(al, be, s) = m} : m \in {MinObjectiveWith(al, be, F)}}

MinObjective(F) == MinObjectiveWith(alpha, beta, F)

(* ------------------------------ initial states ----------------------- *)
\* graphs as extract_graph_data emits them: vertices are the dense local
\* indices 0 .. V-1 in topological order, so every edge (u, v) has u < v;
\* the weight of a vertex is the number of wires its gate touches
Graphs(maxV, maxW) ==
    UNION {
        LET V == 0 .. (n - 1)
        IN  [w : [V -> 1 .. maxW],
             e : SUBSET {<<u, v>> \in V \X V : u < v}]
        : n \in 1 .. maxV }

\* lists of QPUs after update_metrics(execution_time, queue_time, capacity)
QpuSets(maxQ, maxCap) ==
    UNION {
        [0 .. (n - 1) ->
            [capacity : 0 .. maxCap, execution_time : 0 .. MaxExec,
             queue_time : 0 .. MaxQueue]]
        : n \in 1 .. maxQ }

\* (alpha, beta) in tenths: cuts only, the defaults, makespan only
Weights == {<<10, 0>>, <<5, 5>>, <<0, 10>>}
DefaultWeights == <<5, 5>>

NoSolution == [T |-> 0]
NoReturn == [type |-> "unset"]
NoUnpack == [type |-> "unset"]

InitWith(g, qs, S, N, ab) ==
    /\ vertex_weights = g.w
    /\ edges = g.e
    /\ qpus = qs
    /\ num_shots_per_subcircuit = S
    /\ num_subcircuits = N
    /\ alpha = ab[1]
    /\ beta = ab[2]
    /\ pc = "start"
    /\ status = "Not Solved"
    /\ sol = NoSolution
    /\ ret = NoReturn
    /\ unpacked = NoUnpack
    /\ StagesIdle

\* any graph, one QPU
Init ==
    \E g \in Graphs(MaxV, MaxWeight), qs \in QpuSets(1, MaxCap),
       S \in 1 .. MaxShots, N \in 1 .. MaxN, ab \in Weights :
        InitWith(g, qs, S, N, ab)

\* small graphs, a fleet of QPUs
InitFleet ==
    \E g \in Graphs(FleetMaxV, MaxWeight), qs \in QpuSets(MaxQ, FleetMaxCap),
       S \in 1 .. MaxShots, N \in 1 .. FleetMaxN, ab \in Weights :
        InitWith(g, qs, S, N, ab)

\* Scenario A: the graph of `H; measure` on one QPU with S = 1024
ScenarioAGraph == [w |-> [v \in 0 .. 1 |-> 1], e |-> {<<0, 1>>}]
InitA ==
    \E qs \in {r \in QpuSets(1, MaxCap) : r[0].capacity >= 1}, N \in 1 .. MaxN :
        InitWith(ScenarioAGraph, qs, ScenarioShots, N, DefaultWeights)

\* Scenario D: cuts only, on unit-weight graphs and a fleet of QPUs
InitD ==
    \E g \in Graphs(MaxV, 1), qs \in QpuSets(MaxQ, MaxCap), N \in 1 .. FleetMaxN :
        InitWith(g, qs, 1, N, <<10, 0>>)

(* ------------------------------ actions ------------------------------ *)
\* CutAndShootModel(...): __init__ with add_variables, add_constraints and
\* build_objective_function
Construct ==
    /\ pc = "start"
    /\ pc' = IF BadAlphaBeta THEN "Exception"
             ELSE IF OrderingKeyError THEN "KeyError"
             ELSE "built"
    /\ UNCHANGED <<inputs, status, sol, ret, unpacked, stages>>

\* model.solve_model()
SolveModel ==
    /\ pc = "built"
    /\ \E F \in {FeasibleSolutions} :
          IF F = {}
          THEN /\ status' = "Infeasible"
               /\ sol' = sol
          ELSE \E best \in {MinObjective(F)} : \E s \in F :
                  /\ sol' = s
                  /\ status' = IF Objective(s) = best THEN "Optimal" ELSE "Not Solved"
    /\ pc' = "solved"
    /\ UNCHANGED <<inputs, ret, unpacked, stages>>

\* the list `edges`, in the order the loops of the model visit it
RECURSIVE SortedEdges(_)
SortedEdges(E) ==
    IF E = {} THEN <<>>
    ELSE LET e == CHOOSE g \in E :
                    \A h \in E : g[1] < h[1] \/ (g[1] = h[1] /\ g[2] <= h[2])
         IN  <<e>> \o SortedEdges(E \ {e})

\* the list comprehension over self.vertices, which is in key order 0 .. V-1
RECURSIVE SortedInts(_)
SortedInts(S) ==
    IF S = {} THEN <<>>
    ELSE LET m == CHOOSE i \in S : \A j \in S : i <= j
         IN  <<m>> \o SortedInts(S \ {m})

\* the loop over the edges that fills cuts["out"] and cuts["in"] of subcircuit c
RECURSIVE CutLists(_, _, _)
CutLists(s, c, es) ==
    IF es = <<>> THEN [out |-> <<>>, in |-> <<>>]
    ELSE LET e == Head(es)
             rest == CutLists(s, c, Tail(es))
         IN  IF s.x[e][c] > 0
             THEN IF s.y[e[1]][c] = 1
                  THEN [out |-> <<e[1]>> \o rest.out, in |-> rest.in]
                  ELSE [out |-> rest.out, in |-> <<e[2]>> \o rest.in]
             ELSE rest

\* subcircuits_data: only the subcircuits that hold at least one vertex
SubcircuitsData(s) ==
    LET used == {c \in subcircuit_ids : \E v \in vertices : s.y[v][c] = 1}
    IN  [c \in used |->
            [vertices |-> SortedInts({v \in vertices : s.y[v][c] = 1}),
             shots |-> [q \in {r \in qpus_index : s.shots_assign[c][r] > 0} |->
                           s.shots_assign[c][q]],
             capacity |-> s.d[c],
             input_qubits |-> s.a[c],
             init_qubits |-> s.p[c],
             measured_qubits |-> s.o[c],
             contributing_qubits |-> s.f[c],
             cuts |-> CutLists(s, c, SortedEdges(edges))]]

\* model.print_and_return_solution()
PrintAndReturnSolution ==
    /\ pc = "solved"
    /\ ret' = IF status = "Infeasible"
              THEN [type |-> "NoneType"]
              ELSE [type |-> "dict", data |-> SubcircuitsData(sol)]
    /\ pc' = "returned"
    /\ UNCHANGED <<inputs, status, sol, unpacked, stages>>

\* main: subcircuits, num_cuts = model.print_and_return_solution()
\* Unpacking iterates the returned object: None is not iterable, and a dict
\* yields its keys, which must be exactly two.
Unpack ==
    /\ pc = "returned"
    /\ IF ret.type = "NoneType"
       THEN /\ pc' = "TypeError"
            /\ unpacked' = unpacked
       ELSE LET keys == SortedInts(DOMAIN ret.data)
            IN  IF Len(keys) = 2
                THEN /\ pc' = "unpacked"
                     /\ unpacked' = [type |-> "bound",
                                     subcircuits |-> [type |-> "int", value |-> keys[1]],
                                     num_cuts |-> [type |-> "int", value |-> keys[2]]]
                ELSE /\ pc' = "ValueError"
                     /\ unpacked' = unpacked
    /\ UNCHANGED <<inputs, status, sol, ret, stages>>

Next == Construct \/ SolveModel \/ PrintAndReturnSolution \/ Unpack

Spec == Init /\ [][Next]_vars
SpecFleet == InitFleet /\ [][Next]_vars
SpecA == InitA /\ [][Next]_vars
SpecD == InitD /\ [][Next]_vars

(* ------------------------- properties: shared ------------------------ *)
\* the solver has run
Solved == pc \in {"solved", "returned", "unpacked", "ValueError", "TypeError"}
\* the solver has run and left a feasible assignment in the variables
HasSolution == Solved /\ status # "Infeasible"
\* print_and_return_solution has returned
Returned == pc \in {"returned", "unpacked", "ValueError", "TypeError"}

Elems(seq) == {seq[i] : i \in 1 .. Len(seq)}
VerticesOf(s, c) == {v \in vertices : s.y[v][c] = 1}
NonEmpty(s) == {c \in subcircuit_ids : VerticesOf(s, c) # {}}
SubcircuitsOf(s, v) == {c \in subcircuit_ids : s.y[v][c] = 1}
CutEdges(s) == {e \in edges : SubcircuitsOf(s, e[1]) # SubcircuitsOf(s, e[2])}

(* ------------------------------ C1 ----------------------------------- *)
\* C1: in every feasible solution each vertex v has exactly one c with
\* y[v, c] = 1, and in the mapping returned by print_and_return_solution each
\* vertex appears in exactly one 'vertices' list (and once in it).
C1_OneSubcircuitPerVertex ==
    /\ HasSolution =>
          \A v \in vertices :
              /\ Cardinality(SubcircuitsOf(sol, v)) = 1
              /\ Sum(sol.y[v]) = 1
    /\ (Returned /\ ret.type = "dict") =>
          \A v \in vertices :
              /\ Cardinality({c \in DOMAIN ret.data : v \in Elems(ret.data[c].vertices)}) = 1
              /\ \A c \in DOMAIN ret.data :
                    Cardinality({i \in 1 .. Len(ret.data[c].vertices) :
                                    ret.data[c].vertices[i] = v}) <= 1

\* a returned mapping with three vertices spread over two or more subcircuits
C1_Witness ==
    /\ Returned /\ ret.type = "dict"
    /\ Cardinality(vertices) = 3
    /\ Cardinality(DOMAIN ret.data) >= 2

(* ------------------------------ C2 ----------------------------------- *)
\* C2: in every feasible solution, every subcircuit c and QPU q with
\* shots_assign[c, q] > 0 have d[c] = a[c] + p[c] <= capacity(q).
C2_ShotsOnlyWhereItFits ==
    HasSolution =>
        \A c \in subcircuit_ids : \A q \in qpus_index :
            sol.shots_assign[c][q] > 0 =>
                /\ sol.d[c] = sol.a[c] + sol.p[c]
                /\ sol.d[c] <= qpus[q].capacity

\* a subcircuit runs on one QPU of a fleet whose other QPU is too small for it
C2_Witness ==
    /\ HasSolution
    /\ \E c \in subcircuit_ids : \E q, r \in qpus_index :
          /\ sol.shots_assign[c][q] > 0
          /\ sol.p[c] > 0
          /\ qpus[r].capacity < sol.d[c]

(* ------------------------------ C3 ----------------------------------- *)
\* C3: in every feasible solution the shots of subcircuit c, summed over the
\* QPUs, are S when c holds at least one vertex and 0 when c is empty.
C3_NoShotsForEmptySubcircuit ==
    HasSolution =>
        \A c \in subcircuit_ids :
            Sum(sol.shots_assign[c]) =
                IF VerticesOf(sol, c) # {} THEN num_shots_per_subcircuit ELSE 0

(* ------------------------------ C4 ----------------------------------- *)
\* C4: in every feasible solution the reported number of cuts, half the sum
\* of x[e, c], is the number of edges whose endpoints lie in different
\* subcircuits.
C4_CutsAreSplitEdges ==
    HasSolution => TwiceK(sol.x) = 2 * Cardinality(CutEdges(sol))

\* three vertices, one edge cut and one edge kept inside a subcircuit
C4_Witness ==
    /\ HasSolution
    /\ Cardinality(CutEdges(sol)) >= 1
    /\ edges \ CutEdges(sol) # {}

(* ------------------------------ C5 ----------------------------------- *)
\* C5: for a feasible solve the caller's `subcircuits, num_cuts = ...` binds
\* the subcircuit mapping and the total number of cuts K: the unpacking
\* succeeds, `subcircuits` is the returned mapping and `num_cuts` is K.
C5_CallerGetsMappingAndCuts ==
    (pc \in {"unpacked", "ValueError", "TypeError"} /\ status # "Infeasible") =>
        /\ pc = "unpacked"
        /\ unpacked.subcircuits.type = "dict"
        /\ 2 * unpacked.num_cuts.value = TwiceK(sol.x)

(* ------------------------------ C6 ----------------------------------- *)
\* every QPU's capacity is smaller than the weight of every single vertex
AllCapacitiesTooSmall ==
    \A q \in qpus_index : \A v \in vertices : qpus[q].capacity < vertex_weights[v]

\* C6: when the model is infeasible print_and_return_solution returns None;
\* an input in which every QPU's capacity is smaller than the weight of every
\* vertex (S > 0) is infeasible, so it yields None.
C6_InfeasibleReturnsNone ==
    /\ (Returned /\ status = "Infeasible") => ret.type = "NoneType"
    /\ (Solved /\ AllCapacitiesTooSmall /\ num_shots_per_subcircuit > 0) =>
          status = "Infeasible"
    /\ (Returned /\ AllCapacitiesTooSmall /\ num_shots_per_subcircuit > 0) =>
          ret.type = "NoneType"

\* two QPUs, one of capacity 1, and only vertices of weight 2: None is returned
C6_Witness ==
    /\ Returned /\ ret.type = "NoneType"
    /\ AllCapacitiesTooSmall
    /\ Cardinality(qpus_index) = 2
    /\ \E q \in qpus_index : qpus[q].capacity >= 1

(* ------------------------------ C7 ----------------------------------- *)
\* C7 (Scenario A): for the graph of `H; measure`, one QPU of any capacity
\* >= 1 and S = 1024, the model is feasible and its optimal solution has
\* exactly one non-empty subcircuit and no cut.
C7_ScenarioA ==
    Solved =>
        /\ status # "Infeasible"
        /\ status = "Optimal" =>
              /\ Cardinality(NonEmpty(sol)) = 1
              /\ TwiceK(sol.x) = 0

(* ------------------------------ C8 ----------------------------------- *)
\* the QPUs able to hold at least one vertex; every other QPU has a capacity
\* below the weight of every vertex
AdequateQpus == {q \in qpus_index : \E v \in vertices : qpus[q].capacity >= vertex_weights[v]}

ScenarioE ==
    /\ Solved /\ status = "Optimal"
    /\ alpha = 0 /\ beta = 10
    /\ Cardinality(AdequateQpus) = 1

C9_NoEdges_AsStated ==
    (Solved /\ status = "Optimal" /\ edges = {}) =>
        /\ Cardinality(NonEmpty(sol)) = 1
        /\ TwiceK(sol.x) = 0

\* a single QPU that holds the whole graph and on which a second batch of S
\* shots costs more than the queue time
OneRoomyQpu ==
    /\ Cardinality(qpus_index) = 1
    /\ \A q \in qpus_index :
          /\ qpus[q].capacity >= Sum(vertex_weights)
          /\ qpus[q].queue_time < 2 * num_shots_per_subcircuit * qpus[q].execution_time

\* C9 amended: for a graph without edges every solution, optimal or not,
\* reports zero cuts (K = 0 and empty cut lists); every optimal solution has
\* all vertices in a single subcircuit when beta > 0 and the only QPU holds
\* the whole graph with queue_time < 2 * S * execution_time.
C9_NoEdges ==
    /\ (HasSolution /\ edges = {}) => TwiceK(sol.x) = 0
    /\ (Returned /\ ret.type = "dict" /\ edges = {}) =>
          \A c \in DOMAIN ret.data :
              ret.data[c].cuts.in = <<>> /\ ret.data[c].cuts.out = <<>>
    /\ (Solved /\ status = "Optimal" /\ edges = {} /\ beta > 0 /\ OneRoomyQpu) =>
          Cardinality(NonEmpty(sol)) = 1

\* three isolated vertices, several subcircuits on offer, one roomy QPU
C9_Witness ==
    /\ Returned /\ status = "Optimal" /\ edges = {} /\ beta > 0 /\ OneRoomyQpu
    /\ Cardinality(vertices) = 3 /\ num_subcircuits >= 2
    /\ Cardinality(NonEmpty(sol)) = 1

(* ------------------------------ C10 ---------------------------------- *)
\* C10 (Scenario D): on any input on which the model is feasible, the number
\* of cuts of an optimal solution with alpha = 1, beta = 0 is at most the
\* number of cuts of any optimal solution with alpha = 0.5, beta = 0.5.
C10_ScenarioD ==
    pc = "built" =>
        \A F \in {FeasibleSolutions} :
            F # {} =>
                \A k1 \in {TwiceK(s.x) : s \in OptimalWith(10, 0, F)} :
                    \A k5 \in {TwiceK(s.x) : s \in OptimalWith(5, 5, F)} :
                        k1 <= k5

\* an input on which the balanced run pays a cut that the cuts-only run avoids
C10_Witness ==
    /\ pc = "built"
    /\ \E F \in {FeasibleSolutions} :
          /\ F # {}
          /\ \E k1 \in {TwiceK(s.x) : s \in OptimalWith(10, 0, F)} :
                \E k5 \in {TwiceK(s.x) : s \in OptimalWith(5, 5, F)} :
                    k1 < k5

(* ===================================================================== *)
(*                 create_quantum_subcircuits (constructor.py)            *)
(* ===================================================================== *)
\* the scheduler is not running
MilpIdle ==
    /\ vertex_weights = <<>> /\ edges = {} /\ qpus = <<>>
    /\ num_shots_per_subcircuit = 0 /\ num_subcircuits = 0
    /\ alpha = 0 /\ beta = 0
    /\ pc = "idle" /\ status = "Not Solved"
    /\ sol = NoSolution /\ ret = NoReturn /\ unpacked = NoUnpack

(* --- sequences and strings --- *)
RECURSIVE Concat(_)
Concat(ss) == IF ss = <<>> THEN <<>> ELSE Head(ss) \o Concat(Tail(ss))

\* itertools.product(T, repeat=n), in the order itertools emits it
RECURSIVE Product(_, _)
Product(T, n) ==
    IF n = 0 THEN << <<>> >>
    ELSE LET rest == Product(T, n - 1)
         IN  Concat([i \in 1 .. Len(T) |->
                        [j \in 1 .. Len(rest) |-> <<T[i]>> \o rest[j]]])

\* sep.join(parts)
RECURSIVE Join(_, _)
Join(sep, parts) ==
    IF parts = <<>> THEN <<>>
    ELSE IF Len(parts) = 1 THEN parts[1]
    ELSE parts[1] \o sep \o Join(sep, Tail(parts))

\* str(n) for n >= 0, inside an f-string
Digits == <<"0", "1", "2", "3", "4", "5", "6", "7", "8", "9">>
RECURSIVE Str(_)
Str(n) ==
    IF n < 10 THEN <<Digits[n + 1]>>
    ELSE Str(n \div 10) \o <<Digits[(n % 10) + 1]>>

RECURSIVE Pow(_, _)
Pow(b, n) == IF n = 0 THEN 1 ELSE b * Pow(b, n - 1)

(* --- the circuit and its DAG --- *)
Wires == 0 .. (NumWires - 1)

\* the operations a circuit is made of: name and qargs
Gates ==
    {[name |-> "h", qargs |-> <<w>>] : w \in Wires}
    \cup {[name |-> "measure", qargs |-> <<w>>] : w \in Wires}
    \cup {[name |-> "cx", qargs |-> <<a, b>>] : <<a, b>> \in {p \in Wires \X Wires : p[1] # p[2]}}
    \cup {[name |-> "barrier", qargs |-> [i \in 1 .. NumWires |-> i - 1]]}

Circuits == UNION {[1 .. n -> Gates] : n \in 1 .. MaxOps}

\* dag.op_nodes() under id_mapping: vertex v is the v-th operation
dag_nodes_dict(circ) == [v \in 0 .. (Len(circ) - 1) |-> circ[v + 1]]

QargSet(node) == {node.qargs[i] : i \in 1 .. Len(node.qargs)}

\* the edges between op nodes: u feeds v on a wire that no node between them touches
DagEdges(circ) ==
    LET nodes == dag_nodes_dict(circ)
        V == DOMAIN nodes
    IN  {e \in V \X V :
            /\ e[1] < e[2]
            /\ \E w \in QargSet(nodes[e[1]]) \cap QargSet(nodes[e[2]]) :
                  \A m \in V : (e[1] < m /\ m < e[2]) => w \notin QargSet(nodes[m])}

\* the scheduler's output for the assignment part of vertices to subcircuits:
\* y as Unique_vertex leaves it, x as x_1 .. x_4 force it, and the lists that
\* print_and_return_solution builds from them
ScheduleOf(circ, part) ==
    LET V == 0 .. (Len(circ) - 1)
        C == 0 .. (MaxParts - 1)
        E == DagEdges(circ)
        s == [y |-> [v \in V |-> [c \in C |-> IF part[v] = c THEN 1 ELSE 0]],
              x |-> [e \in E |-> [c \in C |->
                        IF (part[e[1]] = c) # (part[e[2]] = c) THEN 1 ELSE 0]]]
        used == {part[v] : v \in V}
    IN  [c \in used |->
            [vertices |-> SortedInts({v \in V : part[v] = c}),
             cuts |-> CutLists(s, c, SortedEdges(E))]]

\* the assignments the ordering constraint allows
Partitions(circ) ==
    {part \in [0 .. (Len(circ) - 1) -> 0 .. (MaxParts - 1)] :
        \A v \in DOMAIN part : part[v] <= v}

(* --- generate_subcircuits --- *)
InStates == << <<"0">>, <<"1">>, <<"+">>, <<"i">> >>
OutBases == << <<"i", "d">>, <<"x">>, <<"z">>, <<"y">> >>

RECURSIVE SelectSeq2(_, _)
\* [n for n in lst if dag_nodes_dict[n].op.name.lower() != 'barrier']
SelectSeq2(lst, nodes) ==
    IF lst = <<>> THEN <<>>
    ELSE IF nodes[Head(lst)].name # "barrier"
         THEN <<Head(lst)>> \o SelectSeq2(Tail(lst), nodes)
         ELSE SelectSeq2(Tail(lst), nodes)

cuts_in(circ, subcircuit) == SelectSeq2(subcircuit.cuts.in, dag_nodes_dict(circ))
cuts_out(circ, subcircuit) == SelectSeq2(subcircuit.cuts.out, dag_nodes_dict(circ))

all_in_combos_NoneWhenEmpty(cin) ==
    IF cin = <<>> THEN <<>> ELSE Product(InStates, Len(cin))
all_in_combos(cin) == Product(InStates, Len(cin))
all_out_combos(cout) == Product(OutBases, Len(cout))

\* calculate_required_qubits: the wires of the subcircuit's nodes, sorted, and
\* the local index of each
QubitsUsed(circ, subcircuit) ==
    UNION {QargSet(dag_nodes_dict(circ)[v]) : v \in Elems(subcircuit.vertices)}
qbit_map(circ, subcircuit) ==
    LET used == QubitsUsed(circ, subcircuit)
    IN  [w \in used |-> Cardinality({u \in used : u < w})]

\* init_variants_queue: zip(cuts_in, in_combo) into a dict, the last pair of a
\* repeated node wins
init_variant(cin, in_combo, node_id) ==
    LET last == CHOOSE i \in 1 .. Len(cin) :
                    cin[i] = node_id /\ \A j \in 1 .. Len(cin) : cin[j] = node_id => j <= i
    IN  in_combo[last]

\* append_gates: a cut-in node becomes one initialize per local qubit, a
\* measure node is skipped, any other node of the subcircuit is appended
RECURSIVE append_gates(_, _, _, _, _)
append_gates(circ, subcircuit, cin, in_combo, v) ==
    IF v >= Len(circ) THEN <<>>
    ELSE LET node == circ[v + 1]
             qm == qbit_map(circ, subcircuit)
             local_indices == [i \in 1 .. Len(node.qargs) |-> qm[node.qargs[i]]]
             ops == IF v \notin Elems(subcircuit.vertices) \/ node.name = "measure"
                    THEN <<>>
                    ELSE IF v \in Elems(cin)
                    THEN [i \in 1 .. Len(local_indices) |->
                             [op |-> "initialize",
                              arg |-> init_variant(cin, in_combo, v),
                              on |-> <<local_indices[i]>>]]
                    ELSE <<[op |-> node.name, arg |-> <<>>, on |-> local_indices]>>
         IN  ops \o append_gates(circ, subcircuit, cin, in_combo, v + 1)

\* the rotation into the measurement basis, then the measurement
MeasureOps(measure_variant, q, cbit) ==
    (IF measure_variant = <<"x">>
     THEN <<[op |-> "h", arg |-> <<>>, on |-> <<q>>]>>
     ELSE IF measure_variant = <<"y">>
     THEN <<[op |-> "sdg", arg |-> <<>>, on |-> <<q>>],
            [op |-> "h", arg |-> <<>>, on |-> <<q>>]>>
     ELSE <<>>)
    \o <<[op |-> "measure", arg |-> <<cbit>>, on |-> <<q>>]>>

\* the inner loop of append_measurements over the sorted qubits of one node
RECURSIVE MeasureNode(_, _, _)
MeasureNode(qbs, measure_variant, st) ==
    IF qbs = <<>> THEN st
    ELSE LET q == Head(qbs)
         IN  IF q \in st.measured
             THEN MeasureNode(Tail(qbs), measure_variant, st)
             ELSE MeasureNode(Tail(qbs), measure_variant,
                              [ops |-> st.ops \o MeasureOps(measure_variant, q, st.cbit_index),
                               cbit_index |-> st.cbit_index + 1,
                               measured |-> st.measured \cup {q}])

\* append_measurements: the loop over zip(cuts_out, out_combo)
RECURSIVE append_measurements(_, _, _, _, _, _)
append_measurements(circ, subcircuit, cout, out_combo, k, st) ==
    IF k > Len(cout) THEN st
    ELSE LET qm == qbit_map(circ, subcircuit)
             node == dag_nodes_dict(circ)[cout[k]]
             sorted_qbs == SortedInts({qm[w] : w \in QargSet(node)})
         IN  append_measurements(circ, subcircuit, cout, out_combo, k + 1,
                                 MeasureNode(sorted_qbs, out_combo[k], st))

\* f"sub_{sub_id}_in_{'-'.join(in_combo)}_out_{'-'.join(out_combo)}"
circuit_name(sub_id, in_combo, out_combo) ==
    <<"s", "u", "b", "_">> \o Str(sub_id)
    \o <<"_", "i", "n", "_">> \o Join(<<"-">>, in_combo)
    \o <<"_", "o", "u", "t", "_">> \o Join(<<"-">>, out_combo)

\* one variant: (sub_qc_variant, active_qubits, initialized_qubits, measured_qubits)
Variant(circ, subcircuit, in_combo, out_combo) ==
    LET cin == cuts_in(circ, subcircuit)
        cout == cuts_out(circ, subcircuit)
        nodes == dag_nodes_dict(circ)
        qm == qbit_map(circ, subcircuit)
        unique_qbs == UNION {QargSet(nodes[cout[k]]) : k \in 1 .. Len(cout)}
        meas == append_measurements(circ, subcircuit, cout, out_combo, 1,
                                    [ops |-> <<>>, cbit_index |-> 0, measured |-> {}])
    IN  [circuit |-> [num_qubits |-> Cardinality(DOMAIN qm),
                      num_clbits |-> Cardinality(unique_qbs),
                      data |-> append_gates(circ, subcircuit, cin, in_combo, 0) \o meas.ops],
         active_qubits |-> SortedInts({qm[w] : w \in DOMAIN qm}),
         initialized_qubits |->
             SortedInts({qm[w] : w \in UNION {QargSet(nodes[cin[k]]) : k \in 1 .. Len(cin)}}),
         measured_qubits |-> SortedInts({qm[w] : w \in unique_qbs})]

\* one pass of the loop over all_in_combos: the variants of every out_combo
VariantsOfInCombo(circ, sub_id, subcircuit, in_combo) ==
    LET outs == all_out_combos(cuts_out(circ, subcircuit))
    IN  [nm \in {circuit_name(sub_id, in_combo, outs[j]) : j \in 1 .. Len(outs)} |->
            \* a later out_combo of the same name overwrites an earlier one
            LET same == {i \in 1 .. Len(outs) : circuit_name(sub_id, in_combo, outs[i]) = nm}
                j == CHOOSE i \in same : \A k \in same : k <= i
            IN  Variant(circ, subcircuit, in_combo, outs[j])]

(* --- the thread pool and the collecting loop --- *)
\* the dict a task fills is local to its call
LocalSlot_Shared(t) == CHOOSE u \in DOMAIN subcircuits : \A w \in DOMAIN subcircuits : u <= w
LocalSlot(t) == t

InitCtor ==
    /\ MilpIdle /\ MergeIdle /\ RecIdle /\ RunIdle /\ FmtIdle /\ QpuIdle /\ DispIdle
    /\ \E circ \in Circuits : \E part \in Partitions(circ) : \E w \in 1 .. MaxWorkers :
          /\ qc = circ
          /\ subcircuits = ScheduleOf(circ, part)
          /\ max_workers = w
    /\ ctor_pc = "collecting"
    /\ task = [t \in DOMAIN subcircuits |-> "queued"]
    /\ in_pos = [t \in DOMAIN subcircuits |-> 0]
    /\ local_subcircuits = [t \in DOMAIN subcircuits |-> <<>>]
    /\ result = <<>>

\* a free worker takes the call generate_subcircuits(sub_id, subcircuit)
TaskStart(t) ==
    /\ task[t] = "queued"
    /\ Cardinality({u \in DOMAIN task : task[u] = "running"}) < max_workers
    /\ task' = [task EXCEPT ![t] = "running"]
    /\ local_subcircuits' = [local_subcircuits EXCEPT ![LocalSlot(t)] = <<>>]
    /\ UNCHANGED <<not_ctor, qc, subcircuits, max_workers, ctor_pc, in_pos, result>>

\* one iteration of `for in_combo in all_in_combos`
TaskStep(t) ==
    /\ task[t] = "running"
    /\ \E combos \in {all_in_combos(cuts_in(qc, subcircuits[t]))} :
          /\ in_pos[t] < Len(combos)
          /\ local_subcircuits' =
                [local_subcircuits EXCEPT ![LocalSlot(t)] =
                    VariantsOfInCombo(qc, t, subcircuits[t], combos[in_pos[t] + 1]) @@ @]
    /\ in_pos' = [in_pos EXCEPT ![t] = @ + 1]
    /\ UNCHANGED <<not_ctor, qc, subcircuits, max_workers, ctor_pc, task, result>>

\* return sub_id, local_subcircuits
TaskReturn(t) ==
    /\ task[t] = "running"
    /\ in_pos[t] = Len(all_in_combos(cuts_in(qc, subcircuits[t])))
    /\ task' = [task EXCEPT ![t] = "done"]
    /\ UNCHANGED <<not_ctor, qc, subcircuits, max_workers, ctor_pc, in_pos,
                   local_subcircuits, result>>

\* as_completed hands over a finished future: result[sub_id] = local_subcircuits
Collect(t) ==
    /\ ctor_pc = "collecting"
    /\ task[t] = "done"
    /\ result' = (t :> local_subcircuits[LocalSlot(t)]) @@ result
    /\ task' = [task EXCEPT ![t] = "collected"]
    /\ UNCHANGED <<not_ctor, qc, subcircuits, max_workers, ctor_pc, in_pos, local_subcircuits>>

\* return result
CtorReturn ==
    /\ ctor_pc = "collecting"
    /\ \A t \in DOMAIN task : task[t] = "collected"
    /\ ctor_pc' = "returned"
    /\ UNCHANGED <<not_ctor, qc, subcircuits, max_workers, task, in_pos, local_subcircuits, result>>

NextCtor ==
    \/ \E t \in DOMAIN task : TaskStart(t)
    \/ \E t \in DOMAIN task : TaskStep(t)
    \/ \E t \in DOMAIN task : TaskReturn(t)
    \/ \E t \in DOMAIN task : Collect(t)
    \/ CtorReturn

SpecCtor == InitCtor /\ [][NextCtor]_vars

(* ------------------------------ C11 ---------------------------------- *)
\* C11: a subcircuit whose cut-in list and cut-out list are both empty (after
\* the barrier filter) gets exactly one variant, the one of the empty input
\* combo and the empty output combo.
C11_OneVariantWithoutCuts ==
    ctor_pc = "returned" =>
        \A t \in DOMAIN subcircuits :
            (cuts_in(qc, subcircuits[t]) = <<>> /\ cuts_out(qc, subcircuits[t]) = <<>>) =>
                DOMAIN result[t] = {circuit_name(t, <<>>, <<>>)}

\* a subcircuit whose only cut vertex is a barrier, next to one that has variants
C11_Witness ==
    /\ ctor_pc = "returned"
    /\ \E t \in DOMAIN subcircuits :
          /\ subcircuits[t].cuts.in # <<>>
          /\ cuts_in(qc, subcircuits[t]) = <<>> /\ cuts_out(qc, subcircuits[t]) = <<>>
          /\ Cardinality(DOMAIN result[t]) = 1
    /\ \E u \in DOMAIN subcircuits : Cardinality(DOMAIN result[u]) > 1

(* ------------------------------ C12 ---------------------------------- *)
\* the wires touched by the vertices of a filtered cut list
WiresOf(circ, lst) == UNION {QargSet(dag_nodes_dict(circ)[lst[k]]) : k \in 1 .. Len(lst)}

\* C12: every subcircuit gets 4^|Q_in| * 4^|Q_out| variants, Q_in and Q_out
\* being the sets of wires touched by its non-barrier cut-in and cut-out
\* vertices.
C12_VariantsPerWire ==
    ctor_pc = "returned" =>
        \A t \in DOMAIN subcircuits :
            Cardinality(DOMAIN result[t])
              = Pow(4, Cardinality(WiresOf(qc, cuts_in(qc, subcircuits[t]))))
                * Pow(4, Cardinality(WiresOf(qc, cuts_out(qc, subcircuits[t]))))

(* ------------------------------ C13 ---------------------------------- *)
\* the (name, variant) pairs of subcircuit t for its first n input combos
PairsUpTo(t, n) ==
    LET ins == all_in_combos(cuts_in(qc, subcircuits[t]))
        outs == all_out_combos(cuts_out(qc, subcircuits[t]))
    IN  {<<circuit_name(t, ins[i], outs[j]), Variant(qc, subcircuits[t], ins[i], outs[j])>> :
            i \in 1 .. n, j \in 1 .. Len(outs)}

PairsIn(dict) == {<<nm, dict[nm]>> : nm \in DOMAIN dict}

\* C13: whatever the interleaving of the tasks, the order in which they
\* finish and max_workers, the returned mapping holds for every subcircuit
\* exactly the variants of its own combos; while it runs, the dict of a task
\* holds what that task alone wrote.
C13_DeterministicUnderConcurrency ==
    /\ ctor_pc = "returned" =>
          /\ DOMAIN result = DOMAIN subcircuits
          /\ \A t \in DOMAIN subcircuits :
                PairsIn(result[t])
                  = PairsUpTo(t, Len(all_in_combos(cuts_in(qc, subcircuits[t]))))
    /\ \A t \in DOMAIN task :
          task[t] # "queued" => PairsIn(local_subcircuits[t]) = PairsUpTo(t, in_pos[t])

\* two workers: a later subcircuit is already collected while an earlier one
\* is still half way through its input combos
C13_Witness ==
    /\ max_workers = 2
    /\ \E t \in DOMAIN task : \E u \in DOMAIN task :
          /\ t < u
          /\ task[u] = "collected" /\ Cardinality(DOMAIN result[u]) >= 4
          /\ task[t] = "running" /\ in_pos[t] > 0
          /\ in_pos[t] < Len(all_in_combos(cuts_in(qc, subcircuits[t])))

(* ===================================================================== *)
(*              merge_and_normalize_variant_counts (merge.py)             *)
(* ===================================================================== *)
RECURSIVE GCD(_, _)
GCD(a, b) == IF b = 0 THEN a ELSE GCD(b, a % b)

\* the float count / total: two quotients are the same float exactly when
\* they are the same reduced fraction
Frac(n, d) == LET g == GCD(n, d) IN [num |-> n \div g, den |-> d \div g]

Bitstrings == {<<"0">>, <<"1">>}

\* the names of two variants, as the Constructor spells them
MergeNames == {circuit_name(0, <<>>, << <<"x">> >>), circuit_name(1, << <<"0">> >>, <<>>)}

\* one entry of run_circuit_list's result (its 'probabilities' are not read
\* by the Merge stage), with and without the key total_shots
QpuEntries ==
    LET C == UNION {[B -> 1 .. MaxCount] : B \in (SUBSET Bitstrings) \ {{}}}
    IN  {[counts |-> c, total_shots |-> Sum(c), active_qubits |-> <<0>>,
          initialized_qubits |-> <<>>, measured_qubits |-> <<0>>] : c \in C}
        \cup {[counts |-> c, active_qubits |-> <<0>>,
               initialized_qubits |-> <<>>, measured_qubits |-> <<0>>] : c \in C}

QpuResults ==
    UNION {FunsWith(N, [n \in N |-> QpuEntries]) : N \in (SUBSET MergeNames) \ {{}}}

\* dict.get(key, default)
Get(data, key, default) == IF key \in DOMAIN data THEN data[key] ELSE default

\* Counter.update(counts): counts are added
CounterUpdate_Overwrite(old, counts) == counts @@ old
CounterUpdate(old, counts) ==
    [b \in DOMAIN old \cup DOMAIN counts |-> Get(old, b, 0) + Get(counts, b, 0)]

\* total_shots_per_variant[variant_name] += total_shots
AddShots_Last(old, total_shots) == total_shots
AddShots(old, total_shots) == old + total_shots

\* the body of `for qpu_result in qpu_results_list`
Accumulate(acc, qpu_result) ==
    LET names == DOMAIN acc.merged_counts \cup DOMAIN qpu_result
        counts(n) == Get(qpu_result[n], "counts", <<>>)
        total_shots(n) == Get(qpu_result[n], "total_shots", Sum(counts(n)))
    IN  [merged_counts |->
            [n \in names |->
                IF n \in DOMAIN qpu_result
                THEN CounterUpdate(Get(acc.merged_counts, n, <<>>), counts(n))
                ELSE acc.merged_counts[n]],
         total_shots_per_variant |->
            [n \in names |->
                IF n \in DOMAIN qpu_result
                THEN AddShots(Get(acc.total_shots_per_variant, n, 0), total_shots(n))
                ELSE acc.total_shots_per_variant[n]],
         metadata_per_variant |->
            [n \in names |->
                IF n \in DOMAIN acc.metadata_per_variant
                THEN acc.metadata_per_variant[n]
                ELSE [active_qubits |-> Get(qpu_result[n], "active_qubits", <<>>),
                      initialized_qubits |-> Get(qpu_result[n], "initialized_qubits", <<>>),
                      measured_qubits |-> Get(qpu_result[n], "measured_qubits", <<>>)]]]

\* count / total_shots raises when total_shots is 0
DividesByZero(acc) ==
    \E n \in DOMAIN acc.merged_counts :
        acc.merged_counts[n] # <<>> /\ acc.total_shots_per_variant[n] = 0

\* the body of `for variant_name, counts in merged_counts.items()`
Normalize(acc) ==
    [n \in DOMAIN acc.merged_counts |->
        [probabilities |->
            [b \in DOMAIN acc.merged_counts[n] |->
                Frac(acc.merged_counts[n][b], acc.total_shots_per_variant[n])],
         active_qubits |-> acc.metadata_per_variant[n].active_qubits,
         initialized_qubits |-> acc.metadata_per_variant[n].initialized_qubits,
         measured_qubits |-> acc.metadata_per_variant[n].measured_qubits]]

EmptyAcc == [merged_counts |-> <<>>, total_shots_per_variant |-> <<>>,
             metadata_per_variant |-> <<>>]

InitMerge ==
    /\ MilpIdle /\ CtorIdle /\ RecIdle /\ RunIdle /\ FmtIdle /\ QpuIdle /\ DispIdle
    /\ qpu_results_list \in UNION {[1 .. k -> QpuResults] : k \in 0 .. MaxResults}
    /\ merge_pc = "accumulating"
    /\ merge_pos = 0
    /\ merged_counts = <<>>
    /\ total_shots_per_variant = <<>>
    /\ metadata_per_variant = <<>>
    /\ final_results = <<>>

MergeAccumulate ==
    /\ merge_pc = "accumulating"
    /\ merge_pos < Len(qpu_results_list)
    /\ \E acc \in {Accumulate([merged_counts |-> merged_counts,
                               total_shots_per_variant |-> total_shots_per_variant,
                               metadata_per_variant |-> metadata_per_variant],
                              qpu_results_list[merge_pos + 1])} :
          /\ merged_counts' = acc.merged_counts
          /\ total_shots_per_variant' = acc.total_shots_per_variant
          /\ metadata_per_variant' = acc.metadata_per_variant
    /\ merge_pos' = merge_pos + 1
    /\ UNCHANGED <<not_merge, qpu_results_list, merge_pc, final_results>>

MergeNormalize ==
    /\ merge_pc = "accumulating"
    /\ merge_pos = Len(qpu_results_list)
    /\ \E acc \in {[merged_counts |-> merged_counts,
                    total_shots_per_variant |-> total_shots_per_variant,
                    metadata_per_variant |-> metadata_per_variant]} :
          IF DividesByZero(acc)
          THEN merge_pc' = "ZeroDivisionError" /\ final_results' = final_results
          ELSE merge_pc' = "returned" /\ final_results' = Normalize(acc)
    /\ UNCHANGED <<not_merge, qpu_results_list, merge_pos, merged_counts,
                   total_shots_per_variant, metadata_per_variant>>

NextMerge == MergeAccumulate \/ MergeNormalize

SpecMerge == InitMerge /\ [][NextMerge]_vars

(* ------------------------------ C14 ---------------------------------- *)
\* the whole function on a list: both loops
RECURSIVE AccumulateAll(_, _)
AccumulateAll(acc, lst) ==
    IF lst = <<>> THEN acc ELSE AccumulateAll(Accumulate(acc, Head(lst)), Tail(lst))

\* what the claim compares: summed counts, total shots and probability tables
MergedTables(acc) ==
    [counts |-> acc.merged_counts,
     shots |-> acc.total_shots_per_variant,
     probabilities |-> [n \in DOMAIN acc.merged_counts |-> Normalize(acc)[n].probabilities]]

\* the (variant, position) pairs of the list: its entries, whatever QPU result
\* they are grouped in
EntriesOf(lst, n) == {i \in DOMAIN lst : n \in DOMAIN lst[i]}

\* C14: the summed counts, the total shots and the probability tables that
\* merge_and_normalize_variant_counts computes do not depend on the order of
\* qpu_results_list (every permutation gives the same) nor on how the entries
\* of a variant are grouped into QPU results (they are the sums over the
\* entries of that variant).
C14_MergeCommutes ==
    merge_pc = "returned" =>
        /\ \A pi \in Permutations(DOMAIN qpu_results_list) :
              MergedTables(AccumulateAll(EmptyAcc,
                                         [i \in DOMAIN qpu_results_list |->
                                             qpu_results_list[pi[i]]]))
                = [counts |-> merged_counts,
                   shots |-> total_shots_per_variant,
                   probabilities |-> [n \in DOMAIN final_results |->
                                         final_results[n].probabilities]]
        /\ \A n \in MergeNames :
              LET at == EntriesOf(qpu_results_list, n)
              IN  IF at = {} THEN n \notin DOMAIN final_results
                  ELSE /\ n \in DOMAIN final_results
                       /\ total_shots_per_variant[n]
                            = SumOver(at, [i \in at |-> Sum(qpu_results_list[i][n].counts)])
                       /\ \A b \in Bitstrings :
                             Get(merged_counts[n], b, 0)
                               = SumOver(at, [i \in at |->
                                                 Get(qpu_results_list[i][n].counts, b, 0)])

\* three QPU results that all hold one variant with different counts, and a
\* second variant that only some of them hold
C14_Witness ==
    /\ merge_pc = "returned"
    /\ Len(qpu_results_list) = 3
    /\ \E n \in MergeNames : \E m \in MergeNames :
          /\ Cardinality(EntriesOf(qpu_results_list, n)) = 3
          /\ qpu_results_list[1][n].counts # qpu_results_list[2][n].counts
          /\ qpu_results_list[2][n].counts # qpu_results_list[3][n].counts
          /\ Cardinality(EntriesOf(qpu_results_list, m)) = 1

(* ------------------------------ C15 ---------------------------------- *)
\* the sum of a table of fractions is 1
RECURSIVE ProdDen(_, _)
ProdDen(D, t) ==
    IF D = {} THEN 1
    ELSE LET b == CHOOSE e \in D : TRUE IN t[b].den * ProdDen(D \ {b}, t)

SumsToOne(t) ==
    LET L == ProdDen(DOMAIN t, t)
    IN  SumOver(DOMAIN t, [b \in DOMAIN t |-> t[b].num * (L \div t[b].den)]) = L

\* C15: on Dispatcher results (total_shots is the sum of the counts) every
\* probability of the merged table is the summed count of its bitstring over
\* the summed total shots, lies in [0, 1], and the table sums to 1.
C15_ProbabilitiesNormalised ==
    merge_pc = "returned" =>
        \A n \in DOMAIN final_results :
            LET at == EntriesOf(qpu_results_list, n)
                shots == SumOver(at, [i \in at |-> Sum(qpu_results_list[i][n].counts)])
                t == final_results[n].probabilities
            IN  /\ \A b \in DOMAIN t :
                      /\ t[b] = Frac(SumOver(at, [i \in at |->
                                                Get(qpu_results_list[i][n].counts, b, 0)]),
                                     shots)
                      /\ 0 <= t[b].num /\ t[b].num <= t[b].den
                /\ SumsToOne(t)

\* a variant whose shots were split over QPUs with different counts, so that
\* its merged table has two entries that are neither 0 nor 1
C15_Witness ==
    /\ merge_pc = "returned"
    /\ \E n \in DOMAIN final_results :
          /\ Cardinality(EntriesOf(qpu_results_list, n)) >= 2
          /\ Cardinality(DOMAIN final_results[n].probabilities) = 2
          /\ \E b \in Bitstrings : final_results[n].probabilities[b] = [num |-> 2, den |-> 3]

(* ===================================================================== *)
(*   fd_reconstruct_variant_dict, dd_reconstruct_variant_dict             *)
(*   (post_processing.py)                                                 *)
(* ===================================================================== *)
\* A probability is a whole number of units 1 / ProbUnit and base_coeff is
\* a whole number, so every entry of the accumulated vector is a whole
\* number of units 1 / ProbUnit^subcircuits and the arithmetic is exact.
\* A non-zero entry or sum is then at least 1 / ProbUnit^2, far above the
\* 1e-15 of the code, so abs(total) > 1e-15 is total # 0.
Abs(n) == IF n < 0 THEN 0 - n ELSE n

\* a quotient of whole numbers as a reduced fraction with a positive denominator
FracSigned(n, d) ==
    LET g == GCD(Abs(n), Abs(d))
        sgn == IF d < 0 THEN 0 - 1 ELSE 1
    IN  [num |-> sgn * (n \div g), den |-> sgn * (d \div g)]

\* int(bitstring, 2)
RECURSIVE ParseBinary(_)
ParseBinary(bitstring) ==
    IF bitstring = <<>> THEN 0
    ELSE 2 * ParseBinary(SubSeq(bitstring, 1, Len(bitstring) - 1))
         + (IF bitstring[Len(bitstring)] = "1" THEN 1 ELSE 0)

\* vec[index] = prob raises IndexError when the index is outside the vector
VectorIndexError(probabilities, n) ==
    \E b \in DOMAIN probabilities : ParseBinary(b) >= Pow(2, n)

\* vector_from_probabilities: zeros(2^n) with vec[int(bitstring, 2)] = prob
vector_from_probabilities(probabilities, n) ==
    [i \in 0 .. (Pow(2, n) - 1) |->
        IF \E b \in DOMAIN probabilities : ParseBinary(b) = i
        THEN probabilities[CHOOSE b \in DOMAIN probabilities : ParseBinary(b) = i]
        ELSE 0]

\* str.count(ch) for a one-character ch
RECURSIVE Count(_, _)
Count(str, ch) ==
    IF str = <<>> THEN 0
    ELSE (IF Head(str) = ch THEN 1 ELSE 0) + Count(Tail(str), ch)

SignOf_XOnly(variant_name) ==
    IF Count(variant_name, "x") % 2 = 0 THEN 1 ELSE 0 - 1

\* sign = +1 if ((x_count + y_count) % 2 == 0) else -1
SignOf(variant_name) ==
    IF (Count(variant_name, "x") + Count(variant_name, "y")) % 2 = 0 THEN 1 ELSE 0 - 1

\* compute_variant_contrib: (vec, eff_coeff, n_qubits)
compute_variant_contrib(variant_name, variant_data, coeff) ==
    LET n_qubits == Len(variant_data.active_qubits)
    IN  [vec |-> vector_from_probabilities(variant_data.probabilities, n_qubits),
         eff_coeff |-> SignOf(variant_name) * coeff,
         n_qubits |-> n_qubits]

\* variant_name.startswith("sub_")
StartsWithSub(variant_name) ==
    Len(variant_name) >= 4 /\ SubSeq(variant_name, 1, 4) = <<"s", "u", "b", "_">>

\* str.split("_")
RECURSIVE Split(_, _)
Split(str, acc) ==
    IF str = <<>> THEN <<acc>>
    ELSE IF Head(str) = "_" THEN <<acc>> \o Split(Tail(str), <<>>)
    ELSE Split(Tail(str), Append(acc, Head(str)))

IsNumeric(str) ==
    str # <<>> /\ \A i \in 1 .. Len(str) : \E d \in 1 .. 10 : Digits[d] = str[i]

\* int(parts[1])
RECURSIVE ParseInt(_)
ParseInt(str) ==
    IF str = <<>> THEN 0
    ELSE 10 * ParseInt(SubSeq(str, 1, Len(str) - 1))
         + ((CHOOSE d \in 1 .. 10 : Digits[d] = str[Len(str)]) - 1)

\* the key under which a variant is grouped
SubIdxOf(variant_name) ==
    IF StartsWithSub(variant_name) /\ IsNumeric(Split(variant_name, <<>>)[2])
    THEN ParseInt(Split(variant_name, <<>>)[2])
    ELSE variant_name

\* grouped[sub_idx][variant_name] = data
Grouped(res) ==
    LET keys == {SubIdxOf(n) : n \in DOMAIN res}
    IN  [k \in keys |-> [n \in {m \in DOMAIN res : SubIdxOf(m) = k} |-> res[n]]]

\* the active qubits of a subcircuit are those of its first variant
\* (v_list[0][2] in fd, next(iter(grouped[sub_idx])) in dd)
ActiveOf(c, k) ==
    LET first == CHOOSE n \in DOMAIN c[k] : TRUE IN c[k][first].n_qubits

\* format(n, "b"): the binary digits of n, "0" for 0
RECURSIVE Bin(_)
Bin(n) ==
    IF n < 2 THEN <<Digits[n + 1]>>
    ELSE Bin(n \div 2) \o <<Digits[(n % 2) + 1]>>

\* format(global_idx, f"0{total_active}b"): padded with zeros to the width
bin_str(global_idx, width) ==
    LET b == Bin(global_idx)
    IN  [i \in 1 .. (IF width > Len(b) THEN width - Len(b) ELSE 0) |-> "0"] \o b

LocalIdx_FromTheRight(c, keys, i, g) ==
    LET total_active == SumOver(1 .. Len(keys), [j \in 1 .. Len(keys) |-> ActiveOf(c, keys[j])])
        after == SumOver((i + 1) .. Len(keys), [j \in (i + 1) .. Len(keys) |-> ActiveOf(c, keys[j])])
    IN  ParseBinary(SubSeq(bin_str(g, total_active), after + 1, after + ActiveOf(c, keys[i])))

\* int(bin_str[offset:offset+n], 2) for the i-th subcircuit, offset being the
\* qubits of the subcircuits before it
LocalIdx(c, keys, i, g) ==
    LET total_active == SumOver(1 .. Len(keys), [j \in 1 .. Len(keys) |-> ActiveOf(c, keys[j])])
        offset == SumOver(1 .. (i - 1), [j \in 1 .. (i - 1) |-> ActiveOf(c, keys[j])])
    IN  ParseBinary(SubSeq(bin_str(g, total_active), offset + 1, offset + ActiveOf(c, keys[i])))

\* len(vec)
Dim(vec) == Cardinality(DOMAIN vec)

\* np.kron(a, b) of two vectors
Kron(a, b) ==
    [i \in 0 .. (Dim(a) * Dim(b) - 1) |-> a[i \div Dim(b)] * b[i % Dim(b)]]

\* kron_prod after the loop over combo[1:], starting from combo[0][0]
RECURSIVE KronProd(_, _, _, _, _)
KronProd(c, keys, combo, i, acc) ==
    IF i > Len(keys) THEN acc
    ELSE KronProd(c, keys, combo, i + 1, Kron(acc, c[keys[i]][combo[i]].vec))

RECURSIVE ProdOver(_, _)
ProdOver(D, f) ==
    IF D = {} THEN 1
    ELSE LET d == CHOOSE e \in D : TRUE IN f[d] * ProdOver(D \ {d}, f)

\* np.allclose(vec, 0)
AllClose0(vec) == \A i \in DOMAIN vec : vec[i] = 0

\* combination_contribution(combo): zeros when one vector is all zero,
\* else total_coeff * kron_prod
combination_contribution(c, keys, combo) ==
    IF \E i \in 1 .. Len(keys) : AllClose0(c[keys[i]][combo[i]].vec)
    THEN [g \in 0 .. (ProdOver(1 .. Len(keys),
                               [i \in 1 .. Len(keys) |-> Dim(c[keys[i]][combo[i]].vec)]) - 1)
             |-> 0]
    ELSE LET total_coeff == ProdOver(1 .. Len(keys),
                                     [i \in 1 .. Len(keys) |-> c[keys[i]][combo[i]].eff_coeff])
             kron_prod == KronProd(c, keys, combo, 2, c[keys[1]][combo[1]].vec)
         IN  [g \in DOMAIN kron_prod |-> total_coeff * kron_prod[g]]

\* np.sum(partial_contributions, axis=0) over itertools.product(*sub_variant_lists)
fd_global_vector(c) ==
    LET keys == SortedInts(DOMAIN c)
        total_active == SumOver(1 .. Len(keys), [i \in 1 .. Len(keys) |-> ActiveOf(c, keys[i])])
        combos == FunsWith(1 .. Len(keys), [i \in 1 .. Len(keys) |-> DOMAIN c[keys[i]]])
        partial == [combo \in combos |-> combination_contribution(c, keys, combo)]
    IN  [g \in 0 .. (Pow(2, total_active) - 1) |->
            SumOver(combos, [combo \in combos |-> partial[combo][g]])]

\* variant_entries[idx]: the variants of one subcircuit with a non-zero value at idx
variant_entries(c, k, idx) == {n \in DOMAIN c[k] : c[k][n].vec[idx] # 0}

\* the sum, over itertools.product(*sub_values), of the product of val * eff:
\* the sum over the product of the lists is the product of their sums
RECURSIVE total_contrib(_, _, _, _)
total_contrib(c, keys, i, g) ==
    IF i > Len(keys) THEN 1
    ELSE LET idx == LocalIdx(c, keys, i, g)
             E == variant_entries(c, keys[i], idx)
         IN  SumOver(E, [n \in E |-> c[keys[i]][n].vec[idx] * c[keys[i]][n].eff_coeff])
             * total_contrib(c, keys, i + 1, g)

\* the global vector of dd_reconstruct_variant_dict, entry by entry; an index
\* with a subcircuit that has no entry for it is skipped and stays 0
dd_global_vector(c) ==
    LET keys == SortedInts(DOMAIN c)
        total_active == SumOver(1 .. Len(keys), [i \in 1 .. Len(keys) |-> ActiveOf(c, keys[i])])
    IN  [g \in 0 .. (Pow(2, total_active) - 1) |->
            IF \E i \in 1 .. Len(keys) :
                   variant_entries(c, keys[i], LocalIdx(c, keys, i, g)) = {}
            THEN 0
            ELSE total_contrib(c, keys, 1, g)]

Divisor_Abs(total) == Abs(total)

\* global_vector /= total
Divisor(total) == total

\* the returned vector, as fractions: divided by the total when
\* abs(total) > 1e-15, else the accumulated entries as they are
Normalised(vector, unit) ==
    LET total == Sum(vector)
    IN  IF total # 0
        THEN [g \in DOMAIN vector |-> FracSigned(vector[g], Divisor(total))]
        ELSE [g \in DOMAIN vector |-> FracSigned(vector[g], unit)]

\* probability tables of one measured bit, in units of 1 / ProbUnit
Distributions ==
    {p \in UNION {[B -> 1 .. ProbUnit] : B \in (SUBSET Bitstrings) \ {{}}} : Sum(p) = ProbUnit}

VariantResults == [active_qubits : {<<0>>}, probabilities : Distributions]

\* the variants of subcircuit 0 (one cut leaving it) and of subcircuit 1
\* (one cut entering it, one leaving it), as the Constructor names them
RecNames(sub) ==
    IF sub = 0
    THEN {circuit_name(0, <<>>, <<OutBases[k]>>) : k \in 1 .. 4}
    ELSE {circuit_name(1, << <<"0">> >>, << <<"z">> >>),
          circuit_name(1, << <<"i">> >>, << <<"y">> >>)}

\* results of some variants of subcircuit 0, alone or with some of subcircuit 1
AllResults ==
    LET Tables(N) == FunsWith(N, [n \in N |-> VariantResults])
        S0 == UNION {Tables(N) : N \in (SUBSET RecNames(0)) \ {{}}}
        S1 == UNION {Tables(N) : N \in SUBSET RecNames(1)}
    IN  {<<>>} \cup {a @@ b : a \in S0, b \in S1}

InitRec ==
    /\ MilpIdle /\ CtorIdle /\ MergeIdle /\ RunIdle /\ FmtIdle /\ QpuIdle /\ DispIdle
    /\ all_results \in AllResults
    /\ base_coeff \in 1 .. MaxCoeff
    /\ method \in {"fd", "dd"}
    /\ rec_pc = "called"
    /\ contribs = <<>> /\ global_vector = <<>> /\ rec_ret = <<>>

\* names for compute_variant_contrib: every combo of at most MaxCombo input
\* states and output bases, with one- and two-digit subcircuit ids
ContribSubIds == {0, 7, 12}
Combos(T) == UNION {{Product(T, n)[i] : i \in 1 .. Len(Product(T, n))} : n \in 0 .. MaxCombo}

\* the names with the parts they were built from
GeneratedNames ==
    {[name |-> circuit_name(sub, in_combo, out_combo), sub_id |-> sub,
      in_combo |-> in_combo, out_combo |-> out_combo] :
        sub \in ContribSubIds, in_combo \in Combos(InStates), out_combo \in Combos(OutBases)}

InitContrib ==
    /\ MilpIdle /\ CtorIdle /\ MergeIdle /\ RunIdle /\ FmtIdle /\ QpuIdle /\ DispIdle
    /\ \E e \in GeneratedNames, r \in VariantResults : all_results = (e.name :> r)
    /\ base_coeff \in 1 .. MaxCoeff
    /\ method \in {"fd", "dd"}
    /\ rec_pc = "called"
    /\ contribs = <<>> /\ global_vector = <<>> /\ rec_ret = <<>>

\* the grouping and the calls of compute_variant_contrib, one per variant
Contribute ==
    /\ rec_pc = "called"
    /\ LET by_sub == Grouped(all_results)
       IN  IF \E n \in DOMAIN all_results :
                  VectorIndexError(all_results[n].probabilities,
                                   Len(all_results[n].active_qubits))
           THEN rec_pc' = "IndexError" /\ contribs' = contribs
           ELSE /\ contribs' = [k \in DOMAIN by_sub |->
                                   [n \in DOMAIN by_sub[k] |->
                                       compute_variant_contrib(n, by_sub[k][n], base_coeff)]]
                /\ rec_pc' = "contributions"
    /\ UNCHANGED <<all_results, base_coeff, method, global_vector, rec_ret, not_rec>>

\* fd: the sum of the contributions of all combinations; with no variant at
\* all the one empty combination fails on combo[0]
FdCombine ==
    /\ rec_pc = "contributions" /\ method = "fd"
    /\ IF DOMAIN contribs = {}
       THEN rec_pc' = "IndexError" /\ global_vector' = global_vector
       ELSE rec_pc' = "summed" /\ global_vector' = fd_global_vector(contribs)
    /\ UNCHANGED <<all_results, base_coeff, method, contribs, rec_ret, not_rec>>

\* dd: the loop over the global indices
DdCombine ==
    /\ rec_pc = "contributions" /\ method = "dd"
    /\ rec_pc' = "summed" /\ global_vector' = dd_global_vector(contribs)
    /\ UNCHANGED <<all_results, base_coeff, method, contribs, rec_ret, not_rec>>

\* the normalisation and the return
RecReturn ==
    /\ rec_pc = "summed"
    /\ rec_ret' = Normalised(global_vector, Pow(ProbUnit, Cardinality(DOMAIN contribs)))
    /\ rec_pc' = "returned"
    /\ UNCHANGED <<all_results, base_coeff, method, contribs, global_vector, not_rec>>

NextRec == Contribute \/ FdCombine \/ DdCombine \/ RecReturn

SpecRec == InitRec /\ [][NextRec]_vars
SpecContrib == InitContrib /\ [][NextRec]_vars

(* --- claims about the reconstruction --- *)
\* the sum of a vector of fractions, as a reduced fraction
RECURSIVE FracSum(_, _)
FracSum(D, t) ==
    IF D = {} THEN [num |-> 0, den |-> 1]
    ELSE LET d == CHOOSE e \in D : TRUE
             r == FracSum(D \ {d}, t)
         IN  FracSigned(t[d].num * r.den + r.num * t[d].den, t[d].den * r.den)

\* C16: whenever the absolute value of the sum of the accumulated vector
\* exceeds the epsilon, the vector that fd_reconstruct_variant_dict or
\* dd_reconstruct_variant_dict returns sums to 1.
C16_NormalisedSumsToOne ==
    (rec_pc = "returned" /\ Sum(global_vector) # 0) =>
        FracSum(DOMAIN rec_ret, rec_ret) = [num |-> 1, den |-> 1]

\* two subcircuits, a negative sum, and a returned vector with a negative entry
C16_Witness ==
    /\ rec_pc = "returned"
    /\ Cardinality(DOMAIN contribs) = 2
    /\ Sum(global_vector) < 0
    /\ \E g \in DOMAIN rec_ret : rec_ret[g].num < 0
    /\ \E g \in DOMAIN rec_ret : rec_ret[g].num > 0

\* C17: when the absolute value of the sum is at most the epsilon, both
\* functions return the all-zero vector, never the accumulated entries.
C17_ZeroVectorWhenSumVanishes ==
    (rec_pc = "returned" /\ Sum(global_vector) = 0) =>
        \A g \in DOMAIN rec_ret : rec_ret[g].num = 0

\* the number of X and Y entries of an output-basis tuple
XYCount(out_combo) ==
    Cardinality({k \in 1 .. Len(out_combo) : out_combo[k] \in {<<"x">>, <<"y">>}})

\* C18: for every variant name the Constructor generates, the coefficient
\* compute_variant_contrib returns is (-1)^h * base_coeff, h being the number
\* of X and Y entries of the output-basis tuple, whatever the subcircuit id
\* and the input combination.
C18_SignFromOutputBases ==
    rec_pc \in {"contributions", "summed", "returned"} =>
        \A e \in GeneratedNames :
            e.name \in DOMAIN all_results =>
                contribs[e.sub_id][e.name].eff_coeff
                    = (IF XYCount(e.out_combo) % 2 = 0 THEN 1 ELSE 0 - 1) * base_coeff

\* a two-digit subcircuit id, the input state 'i', and the bases X and Y
C18_Witness ==
    /\ rec_pc = "returned"
    /\ circuit_name(12, << <<"i">>, <<"+">> >>, << <<"y">>, <<"x">> >>) \in DOMAIN all_results
    /\ \A k \in DOMAIN contribs : \A n \in DOMAIN contribs[k] :
          contribs[k][n].eff_coeff = base_coeff

(* ===================================================================== *)
(*                     run_circuit_list (runner.py)                       *)
(* ===================================================================== *)
\* the names of three variants, as the Constructor spells them
RunNames ==
    <<circuit_name(0, <<>>, << <<"z">> >>), circuit_name(0, <<>>, << <<"x">> >>),
      circuit_name(1, << <<"0">> >>, <<>>)>>

\* the circuits of the list: without qubits, with its measurements, without
\* any measurement
RunCircuits ==
    {[num_qubits |-> 0, measures |-> 0], [num_qubits |-> 1, measures |-> 1],
     [num_qubits |-> 1, measures |-> 0]}

RunEntries(name) ==
    [name : {name}, qc : RunCircuits, shots : 1 .. RunMaxShots, active_qubits : {<<0>>},
     init_qbits : {<<>>}, meas_qbits : {<<0>>}]

\* lists of entries with distinct names
CircuitLists ==
    LET Orders == UNION {{o \in [1 .. n -> 1 .. Len(RunNames)] :
                             \A i, j \in 1 .. n : i # j => o[i] # o[j]} :
                         n \in 1 .. MaxCircuits}
    IN  UNION {FunsWith(DOMAIN o, [i \in DOMAIN o |-> RunEntries(RunNames[o[i]])]) :
               o \in Orders}

\* the tables result.get_counts(i) can give for a circuit run with shots
CountTables(shots) ==
    {c \in UNION {[B -> 1 .. shots] : B \in (SUBSET Bitstrings) \ {{}}} : Sum(c) = shots}

InitRun ==
    /\ MilpIdle /\ CtorIdle /\ MergeIdle /\ RecIdle /\ FmtIdle /\ QpuIdle /\ DispIdle
    /\ circuit_list \in CircuitLists
    /\ failing \in SUBSET {circuit_list[i].name : i \in DOMAIN circuit_list}
    /\ run_pc = "called"
    /\ grouped = <<>> /\ run_pos = 0 /\ results = <<>> /\ run_ret = <<>>

\* qc_copy: a circuit without measure operations gets one per qubit
AutoMeasured(qc_copy) ==
    IF qc_copy.measures = 0 THEN [qc_copy EXCEPT !.measures = qc_copy.num_qubits] ELSE qc_copy

\* grouped[shots].append((name, qc_copy)), circuits without qubits skipped;
\* the groups keep the order in which their shots first appear
RECURSIVE GroupByShots(_, _, _)
GroupByShots(lst, i, g) ==
    IF i > Len(lst) THEN g
    ELSE IF lst[i].qc.num_qubits = 0 THEN GroupByShots(lst, i + 1, g)
    ELSE LET e == [name |-> lst[i].name, qc |-> AutoMeasured(lst[i].qc)]
         IN  IF \E k \in 1 .. Len(g) : g[k].shots = lst[i].shots
             THEN GroupByShots(lst, i + 1,
                      [k \in 1 .. Len(g) |->
                          IF g[k].shots = lst[i].shots
                          THEN [g[k] EXCEPT !.group = Append(@, e)] ELSE g[k]])
             ELSE GroupByShots(lst, i + 1,
                      Append(g, [shots |-> lst[i].shots, group |-> <<e>>]))

\* active_qubits_map.get(name, []) and its two siblings
MetaOf(lst, name) ==
    LET i == CHOOSE j \in DOMAIN lst : lst[j].name = name
    IN  [active_qubits |-> lst[i].active_qubits, initialized_qubits |-> lst[i].init_qbits,
         measured_qubits |-> lst[i].meas_qbits]

\* results[name] = {...} for the first n names of a group
StoreResults(res, lst, names, n, counts) ==
    [m \in DOMAIN res \cup {names[i] : i \in 1 .. n} |->
        IF \E i \in 1 .. n : names[i] = m
        THEN LET total_shots == Sum(counts[m])
             IN  [counts |-> counts[m],
                  probabilities |-> [b \in DOMAIN counts[m] |-> Frac(counts[m][b], total_shots)],
                  active_qubits |-> MetaOf(lst, m).active_qubits,
                  initialized_qubits |-> MetaOf(lst, m).initialized_qubits,
                  measured_qubits |-> MetaOf(lst, m).measured_qubits,
                  total_shots |-> total_shots]
        ELSE res[m]]

GroupCircuits ==
    /\ run_pc = "called"
    /\ grouped' = GroupByShots(circuit_list, 1, <<>>)
    /\ run_pos' = 1
    /\ run_pc' = "grouped"
    /\ UNCHANGED <<circuit_list, failing, results, run_ret, not_run>>

\* one pass of the loop over the groups. Nothing catches an exception: a
\* failure of backend.run or job.result() leaves before any result of the
\* group is stored, a failure of get_counts(i) after those of the names
\* before i, and either way the exception leaves run_circuit_list
RunGroup ==
    /\ run_pc = "grouped" /\ run_pos <= Len(grouped)
    /\ LET shots == grouped[run_pos].shots
           names == [i \in 1 .. Len(grouped[run_pos].group) |-> grouped[run_pos].group[i].name]
           N == {names[i] : i \in 1 .. Len(names)}
       IN  \E counts \in FunsWith(N, [n \in N |-> CountTables(shots)]) :
              IF N \cap failing = {}
              THEN /\ results' = StoreResults(results, circuit_list, names, Len(names), counts)
                   /\ run_pos' = run_pos + 1
                   /\ run_pc' = run_pc
              ELSE /\ \/ results' = results
                      \/ LET i == CHOOSE j \in 1 .. Len(names) :
                                     /\ names[j] \in failing
                                     /\ \A k \in 1 .. (j - 1) : names[k] \notin failing
                         IN  results' = StoreResults(results, circuit_list, names, i - 1, counts)
                   /\ run_pos' = run_pos
                   /\ run_pc' = "raised"
    /\ UNCHANGED <<circuit_list, failing, grouped, run_ret, not_run>>

\* return results
RunReturn ==
    /\ run_pc = "grouped" /\ run_pos > Len(grouped)
    /\ run_ret' = results
    /\ run_pc' = "returned"
    /\ UNCHANGED <<circuit_list, failing, grouped, run_pos, results, not_run>>

NextRun == GroupCircuits \/ RunGroup \/ RunReturn

SpecRun == InitRun /\ [][NextRun]_vars

\* C19: a backend failure on one variant does not abort its sibling
\* variants: when the call is over, the caller has the results of every
\* other variant that was submitted, in the same shot group or another.
C19_FailureSparesSiblings ==
    run_pc \in {"returned", "raised"} =>
        \A i \in DOMAIN circuit_list :
            (circuit_list[i].qc.num_qubits > 0 /\ circuit_list[i].name \notin failing)
                => circuit_list[i].name \in DOMAIN run_ret

(* ===================================================================== *)
(*                       format_data (formatter.py)                       *)
(* ===================================================================== *)
\* the dict create_quantum_subcircuits returns: for every subcircuit the
\* variants of all its in_combos, a later one overwriting an earlier one of
\* the same name
RECURSIVE VariantsUpTo(_, _, _, _)
VariantsUpTo(circ, sub_id, subcircuit, k) ==
    IF k = 0 THEN <<>>
    ELSE VariantsOfInCombo(circ, sub_id, subcircuit,
                           all_in_combos(cuts_in(circ, subcircuit))[k])
         @@ VariantsUpTo(circ, sub_id, subcircuit, k - 1)

ConstructorResult(circ, subs) ==
    [t \in DOMAIN subs |->
        VariantsUpTo(circ, t, subs[t], Len(all_in_combos(cuts_in(circ, subs[t]))))]

VariantNames(qs) == UNION {DOMAIN qs[t] : t \in DOMAIN qs}

\* the mapping merge_and_normalize_variant_counts returns for one QPU result
\* that holds every variant with the same counts: keyed by variant name
MergedResults(qs, counts) ==
    LET entry == [counts |-> counts, total_shots |-> Sum(counts), active_qubits |-> <<0>>,
                  initialized_qubits |-> <<>>, measured_qubits |-> <<0>>]
    IN  Normalize(AccumulateAll(EmptyAcc, <<[n \in VariantNames(qs) |-> entry]>>))

\* the mapping the type of format_data announces: str(sub_id) -> name -> entry
NestedResults(qs, counts) ==
    LET flat == MergedResults(qs, counts)
        S == {Str(t) : t \in DOMAIN qs}
    IN  [k \in S |-> LET t == CHOOSE u \in DOMAIN qs : Str(u) = k
                     IN  [n \in DOMAIN qs[t] |-> flat[n]]]

\* the constructor has returned for some circuit and schedule, and
\* format_data is called with its dict and a result mapping
InitFormat ==
    /\ MilpIdle /\ MergeIdle /\ RecIdle /\ RunIdle /\ QpuIdle /\ DispIdle
    /\ \E circ \in Circuits : \E part \in Partitions(circ) :
          /\ qc = circ
          /\ subcircuits = ScheduleOf(circ, part)
          /\ \E r \in {ConstructorResult(circ, ScheduleOf(circ, part))} :
                /\ result = r
                /\ local_subcircuits = r
                /\ quantum_subcircuits = r
                /\ \E counts \in CountTables(RunMaxShots) :
                      variants_results \in {MergedResults(r, counts), NestedResults(r, counts)}
    /\ max_workers = 1
    /\ ctor_pc = "returned"
    /\ task = [t \in DOMAIN subcircuits |-> "collected"]
    /\ in_pos = [t \in DOMAIN subcircuits |->
                    Len(all_in_combos(cuts_in(qc, subcircuits[t])))]
    /\ fmt_pc = "called"
    /\ subcircuits_data = <<>>

\* the variants that pass the two guards
HasResults(vr, sub_id, variant_name) ==
    IF Str(sub_id) \notin DOMAIN vr THEN FALSE
    ELSE variant_name \in DOMAIN vr[Str(sub_id)]

\* the records of one variant: one per entry of cuts_info['out'], then one
\* per entry of cuts_info['in']
RecordsOf(sub_id, variant_obj, output_distribution) ==
    LET outs == Get(variant_obj.cuts_info, "out", <<>>)
        ins == Get(variant_obj.cuts_info, "in", <<>>)
    IN  [i \in 1 .. Len(outs) |->
            [subcircuit_id |-> sub_id, cut_id |-> outs[i].cut_id, edge |-> outs[i].edge,
             role |-> "upstream", bases_or_states |-> variant_obj.measured_info,
             output_distribution |-> output_distribution,
             bitstring_mapping |-> variant_obj.qbit_map]]
        \o [i \in 1 .. Len(ins) |->
            [subcircuit_id |-> sub_id, cut_id |-> ins[i].cut_id, edge |-> ins[i].edge,
             role |-> "downstream", bases_or_states |-> variant_obj.initialized_info,
             output_distribution |-> output_distribution,
             bitstring_mapping |-> variant_obj.qbit_map]]

\* the records of a set of (sub_id, variant_name) pairs; the order of the
\* list, that of the dicts' insertions, is not kept
RECURSIVE RecordsOver(_, _, _)
RecordsOver(P, qs, vr) ==
    IF P = {} THEN <<>>
    ELSE LET p == CHOOSE e \in P : TRUE
         IN  RecordsOf(p[1], qs[p[1]][p[2]], vr[Str(p[1])][p[2]].probabilities)
             \o RecordsOver(P \ {p}, qs, vr)

\* the two loops. A variant of the Constructor is a tuple, and a tuple has
\* no attribute cuts_info: line 26 raises for the first variant that passes
\* the guards
FormatLoop ==
    /\ fmt_pc = "called"
    /\ LET P == {p \in {<<t, n>> : t \in DOMAIN quantum_subcircuits,
                                   n \in VariantNames(quantum_subcircuits)} :
                    /\ p[2] \in DOMAIN quantum_subcircuits[p[1]]
                    /\ HasResults(variants_results, p[1], p[2])}
       IN  IF \E p \in P : "cuts_info" \notin DOMAIN quantum_subcircuits[p[1]][p[2]]
           THEN fmt_pc' = "AttributeError" /\ subcircuits_data' = subcircuits_data
           ELSE /\ fmt_pc' = "formatted"
                /\ subcircuits_data' = RecordsOver(P, quantum_subcircuits, variants_results)
    /\ UNCHANGED <<quantum_subcircuits, variants_results, not_fmt>>

\* return subcircuits_data
FormatReturn ==
    /\ fmt_pc = "formatted"
    /\ fmt_pc' = "returned"
    /\ UNCHANGED <<quantum_subcircuits, variants_results, subcircuits_data, not_fmt>>

NextFormat == FormatLoop \/ FormatReturn

SpecFormat == InitFormat /\ [][NextFormat]_vars

\* the records of one role for one cut of one subcircuit
RecordsFor(sub_id, role, cut) ==
    {i \in DOMAIN subcircuits_data :
        /\ subcircuits_data[i].subcircuit_id = sub_id
        /\ subcircuits_data[i].role = role
        /\ subcircuits_data[i].cut_id = cut}

\* C20: given the Constructor's variants and the mapping the Merge stage
\* returns, format_data returns exactly one record for every (subcircuit,
\* cut) pair, "upstream" for a cut-out and "downstream" for a cut-in, each
\* with an output distribution of that subcircuit.
C20_OneRecordPerCut ==
    (/\ fmt_pc \in {"returned", "AttributeError"}
     /\ DOMAIN variants_results = VariantNames(quantum_subcircuits)) =>
        /\ fmt_pc = "returned"
        /\ \A t \in DOMAIN subcircuits :
              /\ \A k \in DOMAIN cuts_out(qc, subcircuits[t]) :
                    \E i \in DOMAIN subcircuits_data :
                        /\ RecordsFor(t, "upstream", cuts_out(qc, subcircuits[t])[k]) = {i}
                        /\ \E n \in DOMAIN quantum_subcircuits[t] :
                              subcircuits_data[i].output_distribution
                                  = variants_results[n].probabilities
              /\ \A k \in DOMAIN cuts_in(qc, subcircuits[t]) :
                    \E i \in DOMAIN subcircuits_data :
                        /\ RecordsFor(t, "downstream", cuts_in(qc, subcircuits[t])[k]) = {i}
                        /\ \E n \in DOMAIN quantum_subcircuits[t] :
                              subcircuits_data[i].output_distribution
                                  = variants_results[n].probabilities

(* ===================================================================== *)
(*                       QPU (qpu.py), create_qpus                        *)
(* ===================================================================== *)
\* float('inf'), above every finite queue time of the model
Inf == 1000000

\* the names create_qpus asks for
QpuTypes == {"aer_simulator", "aer_simulator_statevector", "ibmq_qasm_simulator",
             "ibm_nairobi", "ibm_oslo"}

\* AerSimulator(): a local simulator
AerSimulator ==
    [backend_name |-> "aer_simulator", simulator |-> TRUE, n_qubits |-> MaxCap,
     operational |-> TRUE, pending_jobs |-> 0, rep_delay |-> 1]

\* what provider.get_backend(qpu_type) can be: a cloud simulator or a device,
\* operational or not, with some jobs pending
ProviderBackends(type) ==
    [backend_name : {type}, simulator : {type = "ibmq_qasm_simulator"},
     n_qubits : {MaxCap}, operational : BOOLEAN, pending_jobs : 0 .. MaxQueue,
     rep_delay : {1}]

\* _initialize_backend: the local simulator for a local name, the provider's
\* backend for one of its names, the default AerSimulator on any failure
InitializeBackend(type) ==
    IF type \in {"aer_simulator", "aer_simulator_statevector"} THEN {AerSimulator}
    ELSE ProviderBackends(type) \cup {AerSimulator}

\* _set_backend_metrics
SetBackendMetrics(backend) ==
    [backend |-> backend,
     simulator |-> backend.simulator,
     capacity |-> backend.n_qubits,
     backend_name |-> backend.backend_name,
     queue_time |-> IF backend.simulator THEN 0
                    ELSE IF backend.operational THEN backend.pending_jobs ELSE Inf,
     execution_time |-> IF backend.simulator THEN 0 ELSE backend.rep_delay]

InitQpu ==
    /\ MilpIdle /\ CtorIdle /\ MergeIdle /\ RecIdle /\ RunIdle /\ FmtIdle /\ DispIdle
    /\ qpu_type \in QpuTypes
    /\ qpu = <<>>
    /\ qpu_pc = "new"

\* QPU(qpu_type, index)
QpuNew ==
    /\ qpu_pc = "new"
    /\ \E backend \in InitializeBackend(qpu_type) : qpu' = SetBackendMetrics(backend)
    /\ qpu_pc' = "ready"
    /\ UNCHANGED <<qpu_type, not_qpu_st>>

\* update_metrics(execution_time, queue_time, capacity)
UpdateMetrics(execution_time, queue_time, capacity) ==
    /\ qpu_pc = "ready"
    /\ qpu' = [qpu EXCEPT !.execution_time = execution_time,
                          !.queue_time = queue_time,
                          !.capacity = capacity,
                          !.backend = AerSimulator]
    /\ UNCHANGED <<qpu_type, qpu_pc, not_qpu_st>>

NextQpu ==
    \/ QpuNew
    \/ \E e \in 0 .. MaxExec, q \in 0 .. MaxQueue, c \in 0 .. MaxCap : UpdateMetrics(e, q, c)

SpecQpu == InitQpu /\ [][NextQpu]_vars

\* C21: a QPU whose backend is a simulator has queue_time = 0, after its
\* construction and after any sequence of update_metrics calls.
C21_SimulatorsNeverQueue ==
    (qpu_pc = "ready" /\ qpu.backend.simulator) => qpu.queue_time = 0

(* --- claims about the circuits of the variants --- *)
\* the (in_combo, out_combo) pairs of a subcircuit's variants
CombosOf(t) ==
    LET ins == all_in_combos(cuts_in(qc, subcircuits[t]))
        outs == all_out_combos(cuts_out(qc, subcircuits[t]))
    IN  {<<ins[i], outs[j]>> : i \in 1 .. Len(ins), j \in 1 .. Len(outs)}

\* what append_measurements appended to the copy of the base circuit
MeasuredPart(t, out_combo) ==
    append_measurements(qc, subcircuits[t], cuts_out(qc, subcircuits[t]), out_combo, 1,
                        [ops |-> <<>>, cbit_index |-> 0, measured |-> {}]).ops

\* the base circuit of a stored variant: its data up to the measured part
BaseCircuit(t, c) ==
    LET data == result[t][circuit_name(t, c[1], c[2])].circuit.data
    IN  SubSeq(data, 1, Len(data) - Len(MeasuredPart(t, c[2])))

IsGate(o) == o.op # "initialize"

\* the operations of the non-measurement vertices of a subcircuit, in DAG
\* order, on the local qubits
RECURSIVE VertexOps(_, _)
VertexOps(t, v) ==
    IF v >= Len(qc) THEN <<>>
    ELSE (IF v \in Elems(subcircuits[t].vertices) /\ qc[v + 1].name # "measure"
          THEN <<[op |-> qc[v + 1].name, arg |-> <<>>,
                  on |-> [i \in 1 .. Len(qc[v + 1].qargs) |->
                             qbit_map(qc, subcircuits[t])[qc[v + 1].qargs[i]]]]>>
          ELSE <<>>)
         \o VertexOps(t, v + 1)

\* the local qubits of the cut-in vertices
CutInQubits(t) ==
    {qbit_map(qc, subcircuits[t])[w] :
        w \in UNION {QargSet(qc[v + 1]) : v \in Elems(cuts_in(qc, subcircuits[t]))}}

\* C22: for every input combo the base circuit holds, in DAG order, the
\* operation of every non-measurement vertex of the subcircuit, those of the
\* cut-in vertices included, and one state preparation per cut-in wire,
\* placed before the first gate that touches the wire.
C22_BaseCircuitKeepsEveryGate ==
    ctor_pc = "returned" =>
        \A t \in DOMAIN result : \A c \in CombosOf(t) :
            LET base == BaseCircuit(t, c)
            IN  /\ SelectSeq(base, IsGate) = VertexOps(t, 0)
                /\ \A q \in CutInQubits(t) :
                      \E i \in DOMAIN base :
                          /\ ~IsGate(base[i]) /\ base[i].on = <<q>>
                          /\ \A j \in DOMAIN base :
                                (j # i /\ q \in Elems(base[j].on)) =>
                                    (IsGate(base[j]) /\ j > i)

\* what follows the base circuit in a stored variant
AppendedPart(t, c) ==
    LET data == result[t][circuit_name(t, c[1], c[2])].circuit.data
    IN  SubSeq(data, Len(BaseCircuit(t, c)) + 1, Len(data))

\* the names of the operations of a sequence that act on local qubit q
RECURSIVE OpsOn(_, _)
OpsOn(ops, q) ==
    IF ops = <<>> THEN <<>>
    ELSE (IF q \in Elems(Head(ops).on) THEN <<Head(ops).op>> ELSE <<>>) \o OpsOn(Tail(ops), q)

\* the basis change the specification gives for a basis
BasisChange(basis) ==
    IF basis = <<"x">> THEN <<"h">>
    ELSE IF basis = <<"y">> THEN <<"sdg", "h">>
    ELSE <<>>

\* C23: for each wire of the cut-out vertices, append_measurements appends
\* the basis change of the basis the out_combo assigns to it (nothing for I
\* or Z, H for X, Sdg then H for Y) and then measures the wire exactly once;
\* no other wire receives a gate.
C23_BasisChangeThenMeasure ==
    ctor_pc = "returned" =>
        \A t \in DOMAIN result : \A c \in CombosOf(t) :
            LET cout == cuts_out(qc, subcircuits[t])
                qm == qbit_map(qc, subcircuits[t])
                tail == AppendedPart(t, c)
            IN  /\ \A k \in 1 .. Len(cout) : \A w \in QargSet(qc[cout[k] + 1]) :
                      OpsOn(tail, qm[w]) = BasisChange(c[2][k]) \o <<"measure">>
                /\ \A w \in DOMAIN qm :
                      (\A k \in 1 .. Len(cout) : w \notin QargSet(qc[cout[k] + 1]))
                          => OpsOn(tail, qm[w]) = <<>>

(* ------------------------------ C24 ---------------------------------- *)
\* C24: in every feasible solution, for each k < num_subcircuits, vertex k is
\* in no subcircuit j > k (vertex 0 is in subcircuit 0); the constraint says
\* nothing about the vertices k >= num_subcircuits.
C24_SymmetryBreak ==
    HasSolution =>
        \A k \in vertices : k < num_subcircuits =>
            \A j \in subcircuit_ids : j > k => sol.y[k][j] = 0

\* vertex 1 uses its highest allowed subcircuit, and a vertex past
\* num_subcircuits sits above a lower-numbered vertex
C24_Witness ==
    /\ HasSolution
    /\ num_subcircuits = 2 /\ Cardinality(vertices) = 3
    /\ sol.y[0][0] = 1 /\ sol.y[1][0] = 1 /\ sol.y[2][1] = 1

(* ------------------------------ C25 ---------------------------------- *)
\* how often v occurs in a list
Occurrences(lst, v) == Cardinality({i \in 1 .. Len(lst) : lst[i] = v})

\* C25: for every non-empty subcircuit c of the returned solution, cuts.out
\* holds the source of each edge that leaves c and cuts.in the target of each
\* edge that enters c, once per edge; so len(cuts.out) = o[c], len(cuts.in) =
\* p[c], and every cut edge is one out-cut and one in-cut.
C25_CutListsMatchCutEdges ==
    (Returned /\ ret.type = "dict") =>
        /\ \A c \in DOMAIN ret.data :
              LET cuts == ret.data[c].cuts
                  leaving == {e \in edges : sol.y[e[1]][c] = 1 /\ sol.y[e[2]][c] = 0}
                  entering == {e \in edges : sol.y[e[2]][c] = 1 /\ sol.y[e[1]][c] = 0}
              IN  /\ \A v \in vertices :
                        /\ Occurrences(cuts.out, v) = Cardinality({e \in leaving : e[1] = v})
                        /\ Occurrences(cuts.in, v) = Cardinality({e \in entering : e[2] = v})
                  /\ Len(cuts.out) = sol.o[c] /\ Len(cuts.in) = sol.p[c]
        /\ SumOver(DOMAIN ret.data, [c \in DOMAIN ret.data |-> Len(ret.data[c].cuts.out)])
              = Cardinality(CutEdges(sol))
        /\ SumOver(DOMAIN ret.data, [c \in DOMAIN ret.data |-> Len(ret.data[c].cuts.in)])
              = Cardinality(CutEdges(sol))

\* vertex 0 has two edges cut, into two different subcircuits
C25_Witness ==
    /\ Returned /\ ret.type = "dict"
    /\ Cardinality(DOMAIN ret.data) = 3
    /\ ret.data[0].cuts.out = <<0, 0>>
    /\ \E c \in DOMAIN ret.data : ret.data[c].cuts.in = <<1>>

(* ------------------------------ C26 ---------------------------------- *)
\* C26: in every optimal solution with beta > 0 the makespan T is the
\* maximum over the QPUs q of queue_time(q) * use_q[q] + execution_time(q) *
\* (the shots assigned to q).
C26_MakespanIsQueuePlusExecution ==
    (HasSolution /\ status = "Optimal" /\ beta > 0) =>
        sol.T = MaxOver(qpus_index,
                        [q \in qpus_index |->
                            qpus[q].queue_time * sol.use_q[q]
                            + qpus[q].execution_time * ShotsOn(sol.shots_assign, q)])

\* ---------------------------------------------------------------------
\* fd_reconstruct_variant_dict against dd_reconstruct_variant_dict

\* the two return values for the contributions of the run, the epsilon test
\* and the division included
FdReturn == Normalised(fd_global_vector(contribs), Pow(ProbUnit, Cardinality(DOMAIN contribs)))
DdReturn == Normalised(dd_global_vector(contribs), Pow(ProbUnit, Cardinality(DOMAIN contribs)))

\* compute_variant_contrib fails for one of the variants, in fd and dd alike
VariantFails ==
    \E n \in DOMAIN all_results :
        VectorIndexError(all_results[n].probabilities, Len(all_results[n].active_qubits))

\* C27 (as stated): for every merged result set whose variants agree on the
\* number of active qubits per subcircuit, and every base coefficient, the
\* two reconstructions return the same vector: neither fails where the
\* other returns, and what one returns is what the other returns.
C27_FdAndDdReturnTheSameVector ==
    /\ (rec_pc = "IndexError") => VariantFails
    /\ (rec_pc = "returned" /\ DOMAIN all_results # {}) =>
           (rec_ret = FdReturn /\ rec_ret = DdReturn)

\* C27 (amended): for every non-empty merged result set the vector returned
\* is the one fd returns and the one dd returns, of length 2^(sum of m_c);
\* for the empty result set dd returns [1.0] and fd raises IndexError.
C27_FdAndDdAgreeOnNonEmptyResults ==
    /\ (rec_pc = "IndexError" /\ ~VariantFails) =>
           (method = "fd" /\ DOMAIN all_results = {})
    /\ (rec_pc = "returned" /\ DOMAIN all_results = {}) =>
           (method = "dd" /\ rec_ret = (0 :> [num |-> 1, den |-> 1]))
    /\ (rec_pc = "returned" /\ DOMAIN all_results # {}) =>
           /\ rec_ret = FdReturn
           /\ rec_ret = DdReturn
           /\ DOMAIN rec_ret =
                  0 .. (Pow(2, SumOver(DOMAIN contribs,
                                       [k \in DOMAIN contribs |-> ActiveOf(contribs, k)])) - 1)

\* two subcircuits whose slices of the global index are told apart: the
\* entries at 01 and 10 differ
C27_Witness ==
    /\ rec_pc = "returned"
    /\ Cardinality(DOMAIN contribs) = 2
    /\ DOMAIN rec_ret = 0 .. 3
    /\ rec_ret[1] # rec_ret[2]
    /\ rec_ret[1].num # 0

\* ---------------------------------------------------------------------
\* main: the dispatch loop

\* the subcircuits of one run and the variants of each of them
MaxDispatched == 2
MaxVariants == 2
MaxDispatchShots == 3
DispatchQpus == 0 .. (MaxQ - 1)

\* subcircuits[c]['shots'] as print_and_return_solution builds it: the QPUs
\* with a positive share only, the shares adding up to S
Assignments(S) ==
    UNION {{a \in [Q -> 1 .. S] : Sum(a) = S} : Q \in (SUBSET DispatchQpus) \ {{}}}

\* the names of the variants of subcircuit c
VariantsOf(c) == {n \in DOMAIN variant_shots : n[1] = c}

\* the (subcircuit, QPU) pairs in the order of the two outer loops
RECURSIVE PairsOf(_, _)
PairsOf(plan, cs) ==
    IF cs = <<>> THEN <<>>
    ELSE LET qs == SortedInts(DOMAIN plan[Head(cs)])
         IN  [i \in 1 .. Len(qs) |-> <<Head(cs), qs[i]>>] \o PairsOf(plan, Tail(cs))

\* quantum_subcircuits holds either what create_quantum_subcircuits returns,
\* tuples, or objects of the class Variant, which have the field shots
InitDispatch ==
    /\ MilpIdle /\ CtorIdle /\ MergeIdle /\ RecIdle /\ RunIdle /\ FmtIdle /\ QpuIdle
    /\ \E n \in 1 .. MaxDispatched, S \in 1 .. MaxDispatchShots :
           /\ shots_plan \in [0 .. (n - 1) -> Assignments(S)]
           /\ \E k \in 1 .. MaxVariants, s0 \in {0, S} :
                  variant_shots = [v \in (0 .. (n - 1)) \X (1 .. k) |-> s0]
    /\ variant_kind \in {"tuple", "Variant"}
    /\ qpu_assignments = [q \in DispatchQpus |-> <<>>]
    /\ assign_todo = PairsOf(shots_plan, SortedInts(DOMAIN shots_plan))
    /\ run_todo = SortedInts(DispatchQpus)
    /\ executed = <<>>
    /\ disp_pc = "assigning"

\* one pass of the loop over subcircuits[subcircuit_id]['shots'].items():
\* every variant of the subcircuit gets the shots of this QPU and is
\* appended, the object itself, to the list of this QPU
Assign ==
    /\ disp_pc = "assigning" /\ assign_todo # <<>>
    /\ LET c == Head(assign_todo)[1]
           q == Head(assign_todo)[2]
           shots == shots_plan[c][q]
           names == [k \in 1 .. Cardinality(VariantsOf(c)) |-> <<c, k>>]
       IN  IF shots > 0 /\ names # <<>> /\ variant_kind = "tuple"
           THEN /\ disp_pc' = "AttributeError"
                /\ UNCHANGED <<variant_shots, qpu_assignments, assign_todo>>
           ELSE /\ variant_shots' =
                       [v \in DOMAIN variant_shots |->
                           IF shots > 0 /\ v[1] = c THEN shots ELSE variant_shots[v]]
                /\ qpu_assignments' =
                       IF shots > 0
                       THEN [qpu_assignments EXCEPT ![q] = @ \o names]
                       ELSE qpu_assignments
                /\ assign_todo' = Tail(assign_todo)
                /\ disp_pc' = IF Tail(assign_todo) = <<>> THEN "running" ELSE "assigning"
    /\ UNCHANGED <<shots_plan, variant_kind, run_todo, executed, not_disp>>

\* one pass of the loop over qpu_assignments.items(): an empty list is
\* skipped, the others run with the shots their variants hold now
RunAssigned ==
    /\ disp_pc = "running" /\ run_todo # <<>>
    /\ LET q == Head(run_todo)
           circuit_data == qpu_assignments[q]
       IN  executed' =
               executed \o [i \in 1 .. Len(circuit_data) |->
                               [qpu |-> q, variant |-> circuit_data[i],
                                shots |-> variant_shots[circuit_data[i]]]]
    /\ run_todo' = Tail(run_todo)
    /\ disp_pc' = IF Tail(run_todo) = <<>> THEN "collected" ELSE "running"
    /\ UNCHANGED <<shots_plan, variant_kind, variant_shots, qpu_assignments, assign_todo,
                   not_disp>>

NextDispatch == Assign \/ RunAssigned

SpecDispatch == InitDispatch /\ [][NextDispatch]_vars

\* C28: every variant run on QPU q runs with the scheduler's shots[c][q] of
\* its subcircuit c, the loop never fails, and once every QPU has run, the
\* shots with which a variant was run add up to S.
C28_VariantsRunWithScheduledShots ==
    /\ disp_pc # "AttributeError"
    /\ \A i \in 1 .. Len(executed) :
           executed[i].shots = shots_plan[executed[i].variant[1]][executed[i].qpu]
    /\ (disp_pc = "collected") =>
           \A v \in DOMAIN variant_shots :
               SumOver({i \in 1 .. Len(executed) : executed[i].variant = v},
                       [i \in 1 .. Len(executed) |-> executed[i].shots])
                   = Sum(shots_plan[v[1]])

(* ------------------------------ C29 ---------------------------------- *)
\* C29: in every feasible solution K <= K_max = |E| / 2 (twice K, the sum
\* of all x[e, c], is at most |E|), so that K / K_max lies in [0, 1].
C29_CutsWithinKMax ==
    HasSolution =>
        /\ TwiceK(sol.x) >= 0
        /\ TwiceK(sol.x) <= Cardinality(edges)

(* ------------------------------ C30 ---------------------------------- *)
\* a graph that extract_graph_data can return: a gate on w qubits has at
\* most w predecessors and at most w successors
CircuitGraph ==
    \A v \in vertices :
        /\ Cardinality({e \in edges : e[1] = v}) <= vertex_weights[v]
        /\ Cardinality({e \in edges : e[2] = v}) <= vertex_weights[v]

\* the vectors d that D_c, A_c, P_c and the linearisation leave for the
\* assignment y
Demands(y) ==
    UNION {{[c \in subcircuit_ids |-> A_c(y, c) + P_c(z_p, c)] : z_p \in Zs(y, x, 2)}
           : x \in Xs(y)}

\* C30: for every vertex assignment that satisfies Unique_vertex and
\* Ordering_subc, every subcircuit c and every QPU q, cap_c_q holds with
\* abilita[c, q] = 0 and Active_subcircuit_c holds with u[c] = 1: the two
\* big-M constants never cut an assignment off.
C30_BigMVacuousWhenDisabled ==
    (pc = "built" /\ CircuitGraph /\ \A q \in qpus_index : qpus[q].capacity >= 1) =>
        \A y \in Ys : \A d \in Demands(y) : \A c \in subcircuit_ids :
            /\ \A q \in qpus_index : cap(d[c], q, 0)
            /\ Active_subcircuit(d[c], 1)

====
